---- MODULE Spec2Model ----
(***************************************************************************)
(* State-machine model of the RunScanner voice service                     *)
(* (src/voice/voice_service.py), its configuration store                   *)
(* (src/voice/voice_common.py) and the external writers of the             *)
(* configuration document (src/voice/voice_agent_api.py, src/agent.py,     *)
(* src/voice/voice_ctl.py).                                                *)
(*                                                                         *)
(* Text is a sequence of one-character strings, so that len(), substring   *)
(* tests and difflib ratios are computed as the code computes them.        *)
(***************************************************************************)
EXTENDS Integers, Sequences, FiniteSets, TLC

\* ------------------------------------------------------------------------
\* Text: normalisation and matching (voice_common.py)
\* ------------------------------------------------------------------------

LowerCaseLetters ==
  <<"a","b","c","d","e","f","g","h","i","j","k","l","m",
    "n","o","p","q","r","s","t","u","v","w","x","y","z">>

UpperCaseLetters ==
  <<"A","B","C","D","E","F","G","H","I","J","K","L","M",
    "N","O","P","Q","R","S","T","U","V","W","X","Y","Z">>

Digits == {"0","1","2","3","4","5","6","7","8","9"}

\* str.lower() on one character
Lower(c) ==
  IF \E i \in 1..26 : UpperCaseLetters[i] = c
    THEN LowerCaseLetters[CHOOSE i \in 1..26 : UpperCaseLetters[i] = c]
    ELSE c

\* the character class [a-z0-9 ] kept by the first re.sub of normalize_text
IsKept(c) ==
  \/ \E i \in 1..26 : LowerCaseLetters[i] = c
  \/ c \in Digits
  \/ c = " "

\* lower(), '-' and '_' to space, every other character outside [a-z0-9 ]
\* to space
CleanChar(c) ==
  LET l == Lower(c)
  IN IF l = "-" \/ l = "_" THEN " "
     ELSE IF IsKept(l) THEN l ELSE " "

\* str.split(): the maximal runs of non-space characters
RECURSIVE SplitFrom(_, _, _)
SplitFrom(s, i, cur) ==
  IF i > Len(s)
    THEN IF cur = <<>> THEN <<>> ELSE <<cur>>
    ELSE IF s[i] = " "
      THEN IF cur = <<>> THEN SplitFrom(s, i + 1, <<>>)
                         ELSE <<cur>> \o SplitFrom(s, i + 1, <<>>)
      ELSE SplitFrom(s, i + 1, Append(cur, s[i]))

Split(s) == SplitFrom(s, 1, <<>>)

\* " ".join(toks)
RECURSIVE Join(_)
Join(toks) ==
  IF toks = <<>> THEN <<>>
  ELSE IF Len(toks) = 1 THEN toks[1]
  ELSE toks[1] \o <<" ">> \o Join(Tail(toks))

\* the canon table of normalize_text
Canon(t) ==
  IF t = <<"t","w","i","n","s">> THEN <<"t","w","i","n">>
  ELSE IF t = <<"s","k","u","l","l">> THEN <<"s","c","o","u","t">>
  ELSE IF t = <<"a","l","f","a">> THEN <<"a","l","p","h","a">>
  ELSE t

normalize_text(s) ==
  LET cleaned == [i \in 1..Len(s) |-> CleanChar(s[i])]
      toks    == Split(cleaned)
  IN Join([i \in 1..Len(toks) |-> Canon(toks[i])])

\* a in b for str: a is a contiguous run of b
IsSubstring(a, b) ==
  \E i \in 0..(Len(b) - Len(a)) : SubSeq(b, i + 1, i + Len(a)) = a

Min2(x, y) == IF x <= y THEN x ELSE y

\* difflib.SequenceMatcher.find_longest_match on a[alo..ahi], b[blo..bhi]
\* (1-based, inclusive): the longest common block, earliest in a, then
\* earliest in b; <<0,0,0>> when there is none
LongestMatch(a, b, alo, ahi, blo, bhi) ==
  LET Blocks == { t \in (alo..ahi) \X (blo..bhi) \X (1..Min2(ahi - alo + 1, bhi - blo + 1)) :
                    /\ t[1] + t[3] - 1 <= ahi
                    /\ t[2] + t[3] - 1 <= bhi
                    /\ SubSeq(a, t[1], t[1] + t[3] - 1) = SubSeq(b, t[2], t[2] + t[3] - 1) }
  IN IF Blocks = {} THEN <<0, 0, 0>>
     ELSE CHOOSE t \in Blocks :
            \A u \in Blocks :
              \/ t[3] > u[3]
              \/ t[3] = u[3] /\ t[1] < u[1]
              \/ t[3] = u[3] /\ t[1] = u[1] /\ t[2] <= u[2]

\* sum of the sizes of SequenceMatcher.get_matching_blocks()
RECURSIVE MatchingSize(_, _, _, _, _, _)
MatchingSize(a, b, alo, ahi, blo, bhi) ==
  IF alo > ahi \/ blo > bhi THEN 0
  ELSE LET m == LongestMatch(a, b, alo, ahi, blo, bhi)
       IN IF m[3] = 0 THEN 0
          ELSE m[3]
               + MatchingSize(a, b, alo, m[1] - 1, blo, m[2] - 1)
               + MatchingSize(a, b, m[1] + m[3], ahi, m[2] + m[3], bhi)

\* SequenceMatcher(None, a, b).ratio() = 2*M/T, kept as the fraction
\* <<2*M, T>>; 1.0 when both are empty
_ratio(a, b) ==
  IF Len(a) + Len(b) = 0 THEN <<1, 1>>
  ELSE <<2 * MatchingSize(a, b, 1, Len(a), 1, Len(b)), Len(a) + Len(b)>>

\* r >= pct/100 for a fraction r
RatioAtLeast(r, pct) == 100 * r[1] >= pct * r[2]

\* r > q for fractions
RatioGreater(r, q) == r[1] * q[2] > q[1] * r[2]

CALLSIGN_MIN_RATIO == 82
PREFIX_MIN_RATIO == 70
\* mutant: a prefix word is required
REQUIRE_PREFIX == FALSE
ALLOW_CALLSIGN_ONLY == TRUE

W_twin == <<"t","w","i","n">>
W_scout == <<"s","c","o","u","t">>

\* best ratio of any token of the utterance against the callsign
\* (the cs_best loop of match_wake_name; 0.0 when no token scores above 0)
RECURSIVE BestRatio(_, _, _)
BestRatio(toks, word, best) ==
  IF toks = <<>> THEN best
  ELSE LET r == _ratio(toks[1], word)
       IN BestRatio(Tail(toks), word, IF RatioGreater(r, best) THEN r ELSE best)

\* mutant: a prefix word is enough
match_wake_name_prefix_first(text_norm, callsign) ==
  LET toks == Split(text_norm)
      cs_best == BestRatio(toks, callsign, <<0, 1>>)
      prefix_ok == \E i \in 1..Len(toks) :
                      \/ RatioAtLeast(_ratio(toks[i], W_twin), PREFIX_MIN_RATIO)
                      \/ RatioAtLeast(_ratio(toks[i], W_scout), PREFIX_MIN_RATIO)
  IN IF toks = <<>> THEN FALSE
     ELSE IF prefix_ok THEN TRUE
     ELSE RatioAtLeast(cs_best, CALLSIGN_MIN_RATIO)

\* match_wake_name (voice_common.py 185-219), its boolean result
match_wake_name(text_norm, callsign) ==
  LET toks == Split(text_norm)
      cs_best == BestRatio(toks, callsign, <<0, 1>>)
      prefix_ok == \E i \in 1..Len(toks) :
                      \/ RatioAtLeast(_ratio(toks[i], W_twin), PREFIX_MIN_RATIO)
                      \/ RatioAtLeast(_ratio(toks[i], W_scout), PREFIX_MIN_RATIO)
  IN IF toks = <<>> THEN FALSE
     ELSE IF ~RatioAtLeast(cs_best, CALLSIGN_MIN_RATIO) THEN FALSE
     ELSE IF prefix_ok THEN TRUE
     ELSE ALLOW_CALLSIGN_ONLY

\* fuzzy_match's keyword defaults (voice_common.py 225-229), in percent
token_cutoff == 80
first_token_cutoff == 85
last_token_cutoff == 90
min_hit == 3
require_last_token == TRUE

\* a + b and a = b for fractions
FracAdd(a, b) == <<a[1] * b[2] + b[1] * a[2], a[2] * b[2]>>
FracEq(a, b) == a[1] * b[2] = b[1] * a[2]

\* the inner loop of fuzzy_match (lines 251-255): the best ratio of target
\* token tt against the tokens of the text
RECURSIVE BestAgainst(_, _, _)
BestAgainst(tt, text_tokens, best) ==
  IF text_tokens = <<>> THEN best
  ELSE LET r == _ratio(tt, text_tokens[1])
       IN BestAgainst(tt, Tail(text_tokens),
                      IF RatioGreater(r, best) THEN r ELSE best)

\* mutant: every token qualifies
CutoffAtNone(i, n) == 0

\* lines 257-263: the cutoff of target token i of n
CutoffAt(i, n) ==
  IF i = 1 THEN first_token_cutoff
  ELSE IF i = n THEN last_token_cutoff
  ELSE token_cutoff

\* fuzzy_match returning (False, 0.0)
NoMatch == [ok |-> FALSE, score |-> <<0, 1>>]

\* the outer loop of fuzzy_match from target token i on (lines 250-275)
RECURSIVE FuzzyFrom(_, _, _, _, _)
FuzzyFrom(text_tokens, target_tokens, i, hits, score_sum) ==
  LET n == Len(target_tokens)
  IN IF i > n
       THEN IF hits < min_hit THEN NoMatch
            ELSE [ok |-> TRUE, score |-> <<score_sum[1], score_sum[2] * hits>>]
       ELSE LET best == BestAgainst(target_tokens[i], text_tokens, <<0, 1>>)
            IN IF RatioAtLeast(best, CutoffAt(i, n))
                 THEN FuzzyFrom(text_tokens, target_tokens, i + 1, hits + 1,
                                FracAdd(score_sum, best))
                 ELSE IF require_last_token /\ i = n THEN NoMatch
                 ELSE FuzzyFrom(text_tokens, target_tokens, i + 1, hits,
                                score_sum)

\* fuzzy_match(text_norm, target) with its default keywords (lines 221-276)
fuzzy_match(text_norm, target) ==
  LET text_tokens == Split(text_norm)
      target_tokens == Split(target)
  IN IF text_tokens = <<>> \/ target_tokens = <<>> THEN NoMatch
     ELSE FuzzyFrom(text_tokens, target_tokens, 1, 0, <<0, 1>>)

\* the keywords fuzzy_match accepts, and those match_phrase passes
\* (voice_rt_stt.py 203-208)
FuzzyKeywords ==
  {"token_cutoff", "first_token_cutoff", "last_token_cutoff", "min_hit",
   "require_last_token"}
PassedKeywords == {"min_token_overlap", "min_ratio"}

\* match_phrase(text_norm, phrases) (voice_rt_stt.py 184-214): None for an
\* empty text; the first phrase that is a substring; else the fuzzy path,
\* whose first call of fuzzy_match raises TypeError for the keywords it
\* does not know
match_phrase(text_norm, phrases) ==
  LET subs == {i \in 1..Len(phrases) :
                 /\ normalize_text(phrases[i]) # <<>>
                 /\ IsSubstring(normalize_text(phrases[i]), text_norm)}
  IN IF text_norm = <<>> THEN [kind |-> "None", phrase |-> 0]
     ELSE IF subs # {}
       THEN [kind |-> "phrase",
             phrase |-> CHOOSE i \in subs : \A j \in subs : i <= j]
     ELSE IF phrases # <<>> /\ ~(PassedKeywords \subseteq FuzzyKeywords)
       THEN [kind |-> "TypeError", phrase |-> 0]
     ELSE \* every score read from the float "dbg" is 0.0: no best phrase
          [kind |-> "None", phrase |-> 0]

\* ------------------------------------------------------------------------
\* Inputs: what the recognizer can return, the scripts and the identity
\* ------------------------------------------------------------------------

\* scanner_name.txt as read by read_identity(): "twin-scout-alpha"
Identity ==
  <<"t","w","i","n","-","s","c","o","u","t","-","a","l","p","h","a">>

\* _callsign_from_identity: last token of the normalised identity
_callsign_from_identity(ident) ==
  LET toks == Split(normalize_text(ident))
  IN IF toks = <<>> THEN <<>> ELSE toks[Len(toks)]

callsign == _callsign_from_identity(Identity)

U_hi == <<"h","i">>
U_wake == <<"t","w","i","n","s"," ","s","c","o","u","t"," ","a","l","f","a">>
U_how == <<"h","o","w"," ","a","r","e"," ","y","o","u"," ","d","o","i","n","g">>
U_talk == <<"l","e","t","'","s"," ","t","a","l","k">>
U_other == <<"g","o","o","d"," ","m","o","r","n","i","n","g">>
\* a chunk of silence: the recognizer returns an empty text
U_silence == <<>>

\* raw texts transcribe_wav can return for one chunk
Utterances == <<U_hi, U_wake, U_how, U_talk, U_other, U_silence>>

NumUtterances == Len(Utterances)

\* stt_loop_once's norm, normalised again by the loop (lines 272, 305, 379)
NormOf == [u \in 1..NumUtterances |-> normalize_text(normalize_text(Utterances[u]))]

P_how == <<"H","o","w"," ","a","r","e"," ","y","o","u">>
P_talk == <<"L","e","t","'","s"," ","t","a","l","k">>

\* the script written by voice_ctl.py cmd_script_demo
DemoScript ==
  << [phrase |-> P_how, reply |-> "Let me check.", action |-> "status.report"],
     [phrase |-> P_talk, reply |-> "Nice to talk to you.", action |-> "enter.llm"] >>

\* a script whose first entry enters llm directly and whose second entry
\* also matches the same utterance
TalkScript ==
  << [phrase |-> P_talk, reply |-> "", action |-> "enter.llm"],
     [phrase |-> <<"t","a","l","k">>, reply |-> "Talking.", action |-> ""] >>

Scripts == {<<>>, DemoScript, TalkScript}

\* ------------------------------------------------------------------------
\* The configuration document (voice_common.py)
\* ------------------------------------------------------------------------

Modes == {"deaf", "name_listen", "conversation", "llm_dummy"}

\* a key the document does not carry
NoKey == "(no key)"

\* the four *_enter_say keys (deaf_enter_say, name_listen_enter_say,
\* conversation_enter_say, llm_enter_say) of a document that has none
NoPrompts == [m \in Modes |-> NoKey]

DEFAULT_CONVERSATION_TIMEOUT_SEC == 20
DEFAULT_LLM_TIMEOUT_SEC == 30

\* DEFAULT_CFG; keys the defaults do not carry are absent from a regenerated
\* document and read as "", False or None by the loop
DEFAULT_CFG ==
  [ mode |-> "deaf",
    conversation_timeout_sec |-> DEFAULT_CONVERSATION_TIMEOUT_SEC,
    llm_timeout_sec |-> DEFAULT_LLM_TIMEOUT_SEC,
    script |-> <<>>,
    vosk_model_dir |-> "",
    test_easy_match |-> FALSE,
    test_min_chars |-> 1,
    test_wake_always |-> FALSE,
    test_phrase_always |-> FALSE,
    enter_say |-> NoPrompts,
    llm_model |-> "",
    llm_api_key_file |-> "" ]

\* mutant: the keys that are not patched go back to their defaults
UpdateResetsOthers(d, patch) ==
  [k \in DOMAIN d |-> IF k \in DOMAIN patch THEN patch[k] ELSE DEFAULT_CFG[k]]

\* cur.update(patch): the patched keys take the patch's values
Update(d, patch) ==
  [k \in DOMAIN d |-> IF k \in DOMAIN patch THEN patch[k] ELSE d[k]]

\* contents of a path: absent, truncated (opened, nothing written yet),
\* torn (two writers wrote the same inode) or a complete document
NoFile == [kind |-> "none", doc |-> DEFAULT_CFG]
EmptyFile == [kind |-> "empty", doc |-> DEFAULT_CFG]
TornFile == [kind |-> "torn", doc |-> DEFAULT_CFG]
DocFile(d) == [kind |-> "doc", doc |-> d]

IsDoc(f) == f.kind = "doc"

\* mutant: the mode is taken as it was loaded
_sanitize_mode_as_loaded(m) == m

\* _sanitize_mode (lines 95-99): an unknown mode reads as deaf
_sanitize_mode(m) == IF m \in Modes THEN m ELSE "deaf"

\* _cfg_str: the value of a key, the default when the key is absent
_cfg_str(v, default) == IF v = NoKey THEN default ELSE v

\* _mode_enter_prompt: the document's prompt for the mode, else the
\* built-in one
_mode_enter_prompt(c, m) ==
  IF m = "deaf" THEN _cfg_str(c.enter_say[m], "I will stay quiet.")
  ELSE IF m = "name_listen" THEN _cfg_str(c.enter_say[m], "I am listening.")
  ELSE IF m = "conversation" THEN _cfg_str(c.enter_say[m], "How can I help you?")
  ELSE IF m = "llm_dummy" THEN _cfg_str(c.enter_say[m], "Do you want to chat with me?")
  ELSE ""

HEARTBEAT_SEC == 10

\* ------------------------------------------------------------------------
\* The LLM client (voice_llm.py)
\* ------------------------------------------------------------------------

\* response ids, as sequences of characters; no id is the empty one
NoId == <<>>
Id_1 == <<"r","_","1">>
Id_2 == <<"r","-","2">>
Id_dotted == <<"r",".","3">>
Id_stale == <<"r"," ","0">>

\* _id_is_safe: not empty and matching ^[A-Za-z0-9_-]+$
_id_is_safe(id) ==
  /\ id # <<>>
  /\ \A i \in 1..Len(id) :
       \/ \E k \in 1..26 : LowerCaseLetters[k] = id[i] \/ UpperCaseLetters[k] = id[i]
       \/ id[i] \in Digits \cup {"_", "-"}

\* the id the remote service gives a new response: never the stored one
FreshId(st) == IF st = Id_1 THEN Id_2 ELSE Id_1

\* _do_request's results that carry no answer: requests.post raised (code
\* 0), a status of 300 or more, a body that is not JSON
FailedResponses ==
  {[ok |-> FALSE, http_code |-> c, json |-> "none", id |-> NoId, text |-> ""] :
     c \in {0, 200, 400, 404, 500}}

\* _do_request's results with a JSON body: an object with a fresh id, with
\* no id or with an id that is not safe, with or without text; or null
OkResponses(st) ==
  {[ok |-> TRUE, http_code |-> 200, json |-> "object", id |-> i, text |-> t] :
     i \in {FreshId(st), NoId, Id_dotted}, t \in {"It is sunny.", ""}}
  \cup {[ok |-> TRUE, http_code |-> 200, json |-> "null", id |-> NoId, text |-> ""]}

\* what _do_request can return while st is the stored id
Responses(st) == FailedResponses \cup OkResponses(st)

\* ------------------------------------------------------------------------
\* Bounds
\* ------------------------------------------------------------------------

\* seconds the clock may advance after the service starts
MaxTime == 5

\* timeouts an operator may configure through voice.start
ConvTimeout == 2
LlmTimeout == 2

\* number of external commands in one behaviour
MaxExt == 2

\* words in an utterance given to match_wake_name directly
MaxWords == 3

\* words in a target phrase given to the phrase matchers directly
MaxTargetWords == 4

\* commands the agent polls in all, and in one poll
MaxCmds == 3
MaxBatch == 2

\* ------------------------------------------------------------------------
\* State
\* ------------------------------------------------------------------------

\* the two processes that write voice_config.json: the voice service loop
\* and the external command dispatcher (agent / voice_ctl)
Procs == {"loop", "ext"}

VARIABLES
  cfgf,                   \* contents of voice_config.json
  tmpf,                   \* contents of voice_config.json.tmp
  fd,                     \* per process: the inode its open descriptor is on
  wdoc,                   \* per process: the document save_voice_config writes
  pc,                     \* per process: position in its code
  ret,                    \* per process: where a running save returns to
  mode,                   \* main(): mode
  last_mode,              \* main(): last_mode ("none" for None)
  cfg,                    \* main(): cfg, the document loaded last
  stt,                    \* main(): TRUE when a recognizer is cached
  mode_enter_ts,          \* main(): mode_enter_ts
  last_hb,                \* main(): last_hb
  conv_last_activity_ts,  \* main(): conv_last_activity_ts
  llm_last_activity_ts,   \* main(): llm_last_activity_ts
  heard,                  \* utterance of this iteration's chunk, 0 for none
  spoken,                 \* what the loop's latest step said, in order
  now,                    \* time.time()
  model_present,          \* the Vosk model directory exists and loads
  key_present,            \* the API key file is readable and not empty
  w_text,                 \* match_wake_name called directly: the words said
  w_out,                  \* ... and what it returned (<<>> before the call)
  f_target,               \* the phrase matchers called directly: the phrase
  f_out,                  \* ... and what they returned (<<>> before the call)
  ecmd,                   \* the external command in progress
  epatch,                 \* ... and the patch it applies
  ecount,                 \* external commands issued so far
  a_cmds,                 \* agent main(): the commands polled so far, in order
  a_done,                 \* ... how many of them the for loop is through with
  a_log,                  \* ... its EXEC lines and acknowledgements, in order
  llm_state,              \* previous_response_id in llm_state.json
  x_reqs,                 \* llm_exchange: the requests made, with responses
  x_ok,                   \* llm_exchange: the ok it returned
  x_reply                 \* llm_exchange: the text it returned

fsVars == <<cfgf, tmpf, fd>>
timerVars == <<mode_enter_ts, last_hb, conv_last_activity_ts, llm_last_activity_ts>>
envVars == <<now, model_present, key_present, w_text, w_out, f_target, f_out>>
agentVars == <<a_cmds, a_done, a_log>>
extVars == <<ecmd, epatch, ecount, agentVars>>
llmVars == <<llm_state, x_reqs, x_ok, x_reply>>

vars == <<cfgf, tmpf, fd, wdoc, pc, ret, mode, last_mode, cfg, stt,
          mode_enter_ts, last_hb, conv_last_activity_ts, llm_last_activity_ts,
          heard, spoken, now, model_present, key_present, w_text, w_out,
          f_target, f_out,
          ecmd, epatch, ecount, a_cmds, a_done, a_log,
          llm_state, x_reqs, x_ok, x_reply>>

\* the service's first heartbeat is always due: time.time() - 0.0 >= 10
StartTime == HEARTBEAT_SEC

\* test flags a document may carry (read at voice_service.py 181-183, 274-277)
KnobSets ==
  { [test_easy_match |-> FALSE, test_min_chars |-> 1,
     test_wake_always |-> FALSE, test_phrase_always |-> FALSE],
    [test_easy_match |-> TRUE, test_min_chars |-> 1,
     test_wake_always |-> TRUE, test_phrase_always |-> TRUE] }

\* enter prompts a document may carry: none, or an empty (silent) prompt
\* for name_listen
PromptSets == {NoPrompts, [NoPrompts EXCEPT !["name_listen"] = ""]}

\* the llm section of a document: absent, complete, or without one of
\* llm.model and llm.api_key_file
NoLlm == [model |-> "", api_key_file |-> ""]
FullLlm == [model |-> "gpt", api_key_file |-> "openai.key"]
LlmSections ==
  {NoLlm, FullLlm, [FullLlm EXCEPT !.model = ""],
   [FullLlm EXCEPT !.api_key_file = ""]}

\* documents a previous run or an operator left on disk, with the test
\* flags drawn from knobs, the prompts from says and the llm section from
\* llms
InitDocs(knobs, says, llms) ==
  { Update(DEFAULT_CFG,
           [mode |-> m, conversation_timeout_sec |-> ConvTimeout,
            llm_timeout_sec |-> LlmTimeout, script |-> DemoScript,
            vosk_model_dir |-> "model",
            test_easy_match |-> k.test_easy_match,
            test_min_chars |-> k.test_min_chars,
            test_wake_always |-> k.test_wake_always,
            test_phrase_always |-> k.test_phrase_always,
            enter_say |-> p,
            llm_model |-> lm.model,
            llm_api_key_file |-> lm.api_key_file]) :
      m \in Modes, k \in knobs, p \in says, lm \in llms }

\* the state when the service process starts, up to the document on disk
InitRest ==
  /\ tmpf = NoFile
  /\ fd = [p \in Procs |-> "closed"]
  /\ wdoc = [p \in Procs |-> DEFAULT_CFG]
  /\ pc = [p \in Procs |-> IF p = "loop" THEN "start" ELSE "idle"]
  /\ ret = [p \in Procs |-> "none"]
  /\ mode = "deaf"
  /\ last_mode = "none"
  /\ cfg = DEFAULT_CFG
  /\ stt = FALSE
  /\ mode_enter_ts = StartTime
  /\ last_hb = 0
  /\ conv_last_activity_ts = StartTime
  /\ llm_last_activity_ts = StartTime
  /\ heard = 0
  /\ spoken = <<>>
  /\ now = StartTime
  /\ model_present \in BOOLEAN
  /\ w_text = <<>>
  /\ w_out = <<>>
  /\ f_target = <<>>
  /\ f_out = <<>>
  /\ ecmd = "voice.stop"
  /\ epatch = [mode |-> "deaf"]
  /\ ecount = 0
  /\ a_cmds = <<>>
  /\ a_done = 0
  /\ a_log = <<>>
  /\ x_reqs = <<>>
  /\ x_ok = FALSE
  /\ x_reply = ""

\* the flags of a production document
ProductionKnobs == {k \in KnobSets : ~k.test_easy_match}

\* production documents with the built-in prompts and no llm section, or
\* no voice_config.json at all
Init ==
  /\ cfgf \in {DocFile(d) : d \in InitDocs(ProductionKnobs, {NoPrompts}, {NoLlm})}
            \cup {NoFile}
  /\ llm_state = NoId
  /\ key_present = FALSE
  /\ InitRest

\* documents with or without test flags and a silent prompt, no llm section
InitTimed ==
  /\ cfgf \in {DocFile(d) : d \in InitDocs(KnobSets, PromptSets, {NoLlm})}
  /\ llm_state = NoId
  /\ key_present = FALSE
  /\ InitRest

\* test flags that let every transcribed chunk through, silence included
SilenceKnobs ==
  { [test_easy_match |-> TRUE, test_min_chars |-> 0,
     test_wake_always |-> FALSE, test_phrase_always |-> FALSE] }

\* installations the LLM client runs in: the complete one with each stored
\* id; one thing missing (llm.model, llm.api_key_file, the whole section or
\* the key file) while an unsafe id is stored; and the complete one with
\* the flags that let silence through
LlmSetups ==
  {[llm |-> FullLlm, key |-> TRUE, stored |-> st, knobs |-> ProductionKnobs] :
     st \in {NoId, Id_1, Id_stale}}
  \cup {[llm |-> l, key |-> TRUE, stored |-> Id_stale, knobs |-> ProductionKnobs] :
          l \in LlmSections \ {FullLlm}}
  \cup {[llm |-> FullLlm, key |-> FALSE, stored |-> Id_stale,
         knobs |-> ProductionKnobs],
        [llm |-> FullLlm, key |-> TRUE, stored |-> Id_1, knobs |-> SilenceKnobs]}

\* the service starts in one of these installations
InitLlm ==
  /\ \E i \in LlmSetups :
       /\ cfgf \in {DocFile(d) : d \in InitDocs(i.knobs, {NoPrompts}, {i.llm})}
       /\ llm_state = i.stored
       /\ key_present = i.key
  /\ InitRest

\* ------------------------------------------------------------------------
\* save_voice_config: write_text to the shared .json.tmp, then replace
\* ------------------------------------------------------------------------

\* mutant: the document is not written
CallSaveSkip(p, d, r) ==
  /\ wdoc' = [wdoc EXCEPT ![p] = d]
  /\ pc' = [pc EXCEPT ![p] = r]
  /\ ret' = ret

\* a process reaches save_voice_config(d); r is where it continues
CallSave(p, d, r) ==
  /\ wdoc' = [wdoc EXCEPT ![p] = d]
  /\ pc' = [pc EXCEPT ![p] = "save_open"]
  /\ ret' = [ret EXCEPT ![p] = r]

\* mutant: the text is written over voice_config.json itself
SaveOpenInPlace(p) ==
  /\ pc[p] = "save_open"
  /\ cfgf' = EmptyFile
  /\ fd' = [fd EXCEPT ![p] = "cfg"]
  /\ pc' = [pc EXCEPT ![p] = "save_write"]
  /\ UNCHANGED <<tmpf, wdoc, ret, mode, last_mode, cfg, stt, timerVars,
                 heard, spoken, envVars, extVars, llmVars>>

\* tmp.write_text, open(tmp, "w"): creates or truncates the one temporary
\* file every writer uses
SaveOpen(p) ==
  /\ pc[p] = "save_open"
  /\ tmpf' = EmptyFile
  /\ fd' = [fd EXCEPT ![p] = "tmp"]
  /\ pc' = [pc EXCEPT ![p] = "save_write"]
  /\ UNCHANGED <<cfgf, wdoc, ret, mode, last_mode, cfg, stt, timerVars,
                 heard, spoken, envVars, extVars, llmVars>>

\* what a write at offset 0 leaves in an inode: the document when the inode
\* was empty or held the same text, else the document or a mix of both
Written(old, d) ==
  IF old.kind = "empty" \/ old = DocFile(d) THEN {DocFile(d)}
  ELSE {DocFile(d), TornFile}

\* tmp.write_text, write and close: the text goes to the inode the
\* descriptor is on, wherever that inode is linked now
SaveWrite(p) ==
  /\ pc[p] = "save_write"
  /\ \/ /\ fd[p] = "tmp"
        /\ tmpf' \in Written(tmpf, wdoc[p])
        /\ cfgf' = cfgf
     \/ /\ fd[p] = "cfg"
        /\ cfgf' \in Written(cfgf, wdoc[p])
        /\ tmpf' = tmpf
     \/ /\ fd[p] = "orphan"
        /\ UNCHANGED <<cfgf, tmpf>>
  /\ fd' = [fd EXCEPT ![p] = "closed"]
  /\ pc' = [pc EXCEPT ![p] = "save_rename"]
  /\ UNCHANGED <<wdoc, ret, mode, last_mode, cfg, stt, timerVars,
                 heard, spoken, envVars, extVars, llmVars>>

\* tmp.replace(VOICE_CFG_FILE) when the temporary file is there: the rename
\* moves whatever inode is at the temporary path, and descriptors follow
\* their inode
SaveRename(p) ==
  /\ pc[p] = "save_rename"
  /\ tmpf.kind # "none"
  /\ cfgf' = tmpf
  /\ tmpf' = NoFile
  /\ fd' = [q \in Procs |-> IF fd[q] = "tmp" THEN "cfg"
                            ELSE IF fd[q] = "cfg" THEN "orphan"
                            ELSE fd[q]]
  /\ pc' = [pc EXCEPT ![p] = ret[p]]
  /\ UNCHANGED <<wdoc, ret, mode, last_mode, cfg, stt, timerVars,
                 heard, spoken, envVars, extVars, llmVars>>

\* where an exception raised in the loop process goes: out of main() before
\* the loop, swallowed ("pass") inside the handler, to the handler otherwise
RaiseTarget(r) ==
  IF r \in {"start2", "start3"} THEN "dead"
  ELSE IF r \in {"exc2", "exc_em"} THEN "load"
  ELSE "exc"

\* tmp.replace raises FileNotFoundError in the loop process: the other
\* writer renamed the shared temporary file away
LoopSaveFail ==
  /\ pc["loop"] = "save_rename"
  /\ tmpf.kind = "none"
  /\ pc' = [pc EXCEPT !["loop"] = RaiseTarget(ret["loop"])]
  /\ UNCHANGED <<fsVars, wdoc, ret, mode, last_mode, cfg, stt, timerVars,
                 heard, spoken, envVars, extVars, llmVars>>

\* the same in the external dispatcher: the command fails
ExtSaveFail ==
  /\ pc["ext"] = "save_rename"
  /\ tmpf.kind = "none"
  /\ pc' = [pc EXCEPT !["ext"] = "idle"]
  /\ UNCHANGED <<fsVars, wdoc, ret, mode, last_mode, cfg, stt, timerVars,
                 heard, spoken, envVars, extVars, llmVars>>

\* ------------------------------------------------------------------------
\* The voice service (voice_service.py main)
\* ------------------------------------------------------------------------

\* load_voice_config as called by process p, continuing at r with the
\* loaded document in cfg: a complete document is returned as it is; any
\* other content is replaced by the defaults, which are saved and returned
LoopLoad(r, onMissing) ==
  IF cfgf.kind = "none"
    THEN \* ensure_voice_config and save_voice_config call each other
         \* without end while the file is absent: RecursionError
         /\ pc' = [pc EXCEPT !["loop"] = onMissing]
         /\ UNCHANGED <<cfg, wdoc, ret>>
    ELSE IF IsDoc(cfgf)
      THEN /\ cfg' = cfgf.doc
           /\ pc' = [pc EXCEPT !["loop"] = r]
           /\ UNCHANGED <<wdoc, ret>>
      ELSE /\ cfg' = DEFAULT_CFG
           /\ CallSave("loop", DEFAULT_CFG, r)

\* main() lines 190-203: the two load_voice_config calls before the loop
\* (the first one's result is only logged)
Start ==
  /\ pc["loop"] = "start"
  /\ LoopLoad("start2", "dead")
  /\ UNCHANGED <<fsVars, mode, last_mode, stt, timerVars, heard, spoken,
                 envVars, extVars, llmVars>>

\* main() lines 204-205: sanitise the loaded mode and save the document
Start2 ==
  /\ pc["loop"] = "start2"
  /\ cfg' = [cfg EXCEPT !.mode = _sanitize_mode(cfg.mode)]
  /\ CallSave("loop", cfg', "start3")
  /\ UNCHANGED <<fsVars, mode, last_mode, stt, timerVars, heard, spoken,
                 envVars, extVars, llmVars>>

\* main() lines 207-217: the loop's local state
Start3 ==
  /\ pc["loop"] = "start3"
  /\ stt' = FALSE
  /\ mode' = cfg.mode
  /\ last_mode' = "none"
  /\ mode_enter_ts' = now
  /\ last_hb' = 0
  /\ conv_last_activity_ts' = now
  /\ llm_last_activity_ts' = now
  /\ heard' = 0
  /\ spoken' = <<>>
  /\ pc' = [pc EXCEPT !["loop"] = "load"]
  /\ UNCHANGED <<fsVars, wdoc, ret, cfg, envVars, extVars, llmVars>>

\* line 221: cfg = load_voice_config() at the top of an iteration
Load ==
  /\ pc["loop"] = "load"
  /\ LoopLoad("check", "exc")
  /\ heard' = 0
  /\ spoken' = <<>>
  /\ x_reqs' = <<>>
  /\ x_ok' = FALSE
  /\ x_reply' = ""
  /\ UNCHANGED <<fsVars, mode, last_mode, stt, timerVars, envVars, extVars,
                 llm_state>>

\* _enter_mode up to its save: persist {**cfg, "mode": new_mode}
EnterModeCall(new_mode, r) ==
  CallSave("loop", [cfg EXCEPT !.mode = _sanitize_mode(new_mode)], r)

\* mutant: every mode may be requested from outside
ExternalModesWide == Modes

\* the modes an external request may ask for (line 226)
ExternalModes == {"deaf", "name_listen"}

\* mutant: any differing request is honoured
RequestAcceptedAny(requested, m) == requested # m

\* line 226: the request is honoured
RequestAccepted(requested, m) ==
  requested \in ExternalModes /\ requested # m

\* lines 224-230: the external request check
Check ==
  /\ pc["loop"] = "check"
  /\ LET requested == _sanitize_mode(cfg.mode)
     IN IF RequestAccepted(requested, mode)
          THEN EnterModeCall(requested, "check_em")
          ELSE /\ pc' = [pc EXCEPT !["loop"] = "log"]
               /\ UNCHANGED <<wdoc, ret>>
  /\ UNCHANGED <<fsVars, mode, last_mode, cfg, stt, timerVars, heard, spoken,
                 envVars, extVars, llmVars>>

\* _enter_mode after its save (lines 88-93) and the assignment of its
\* result to mode, mode_enter_ts by the caller
EnterModeDone ==
  /\ pc["loop"] \in {"check_em", "em", "exc_em"}
  /\ LET new_mode == wdoc["loop"].mode
         prompt == _mode_enter_prompt(cfg, new_mode)
     IN /\ spoken' = IF prompt # "" THEN Append(spoken, prompt) ELSE spoken
        /\ mode' = new_mode
  /\ mode_enter_ts' = now
  /\ pc' = [pc EXCEPT !["loop"] = IF pc["loop"] = "check_em" THEN "log" ELSE "load"]
  /\ UNCHANGED <<fsVars, wdoc, ret, last_mode, cfg, stt, last_hb,
                 conv_last_activity_ts, llm_last_activity_ts, heard,
                 envVars, extVars, llmVars>>

\* mutant: a mode change is noted but no timer is restarted
LogKeepsTimers ==
  /\ pc["loop"] = "log"
  /\ last_mode' = mode
  /\ pc' = [pc EXCEPT !["loop"] = "hb"]
  /\ UNCHANGED <<fsVars, wdoc, ret, mode, cfg, stt, timerVars,
                 heard, spoken, envVars, extVars, llmVars>>

\* lines 233-239: note a mode change once and restart the mode's timer
Log ==
  /\ pc["loop"] = "log"
  /\ IF mode # last_mode
       THEN /\ last_mode' = mode
            /\ conv_last_activity_ts' =
                 IF mode = "conversation" THEN now ELSE conv_last_activity_ts
            /\ llm_last_activity_ts' =
                 IF mode = "llm_dummy" THEN now ELSE llm_last_activity_ts
       ELSE UNCHANGED <<last_mode, conv_last_activity_ts, llm_last_activity_ts>>
  /\ pc' = [pc EXCEPT !["loop"] = "hb"]
  /\ UNCHANGED <<fsVars, wdoc, ret, mode, cfg, stt, mode_enter_ts, last_hb,
                 heard, spoken, envVars, extVars, llmVars>>

\* mutant: the heartbeat counts as activity
HeartbeatIsActivity ==
  /\ pc["loop"] = "hb"
  /\ last_hb' = IF now - last_hb >= HEARTBEAT_SEC THEN now ELSE last_hb
  /\ llm_last_activity_ts' = now
  /\ conv_last_activity_ts' = now
  /\ pc' = [pc EXCEPT !["loop"] = "dispatch"]
  /\ UNCHANGED <<fsVars, wdoc, ret, mode, last_mode, cfg, stt, mode_enter_ts,
                 heard, spoken, envVars, extVars, llmVars>>

\* lines 242-249: the heartbeat log line
Heartbeat ==
  /\ pc["loop"] = "hb"
  /\ last_hb' = IF now - last_hb >= HEARTBEAT_SEC THEN now ELSE last_hb
  /\ pc' = [pc EXCEPT !["loop"] = "dispatch"]
  /\ UNCHANGED <<fsVars, wdoc, ret, mode, last_mode, cfg, stt, mode_enter_ts,
                 conv_last_activity_ts, llm_last_activity_ts, heard, spoken,
                 envVars, extVars, llmVars>>

\* init_vosk: a recognizer, or None when vosk_model_dir is missing, the
\* directory does not exist or the model fails to load
init_vosk(c) == c.vosk_model_dir # "" /\ model_present

\* the branch of the loop body a mode selects; "unknown" is the branch of
\* lines 409-411
Branch(m) ==
  IF m = "name_listen" THEN "nl"
  ELSE IF m = "conversation" THEN "conv"
  ELSE IF m = "llm_dummy" THEN "llm"
  ELSE "unknown"

\* mutant: the recognizer is looked for before the deaf test
DispatchNextEngineFirst(m, ready) ==
  IF ~ready THEN "em"
  ELSE IF m = "deaf" THEN "load"
  ELSE Branch(m)

\* mutant: name_listen listens even without a recognizer
DispatchNextListenAnyway(m, ready) ==
  IF m = "deaf" THEN "load"
  ELSE IF ~ready /\ m # "name_listen" THEN "em"
  ELSE Branch(m)

\* lines 252-266: where an iteration goes after the heartbeat: deaf sleeps
\* and starts over; without a recognizer the fallback transition is made;
\* otherwise the mode's branch runs
DispatchNext(m, ready) ==
  IF m = "deaf" THEN "load"
  ELSE IF ~ready THEN "em"
  ELSE Branch(m)

\* mutant: the recognizer is created in deaf as well
RecognizerAfterInAnyMode(m, cached, ready) == ready

\* lines 252-259: the cached recognizer after the step: deaf leaves before
\* init_vosk is tried
RecognizerAfter(m, cached, ready) == IF m = "deaf" THEN cached ELSE ready

\* lines 252-266: deaf sleeps; other modes need the recognizer, created
\* once; when it cannot be created the loop falls back to name_listen
Dispatch ==
  /\ pc["loop"] = "dispatch"
  /\ LET ready == stt \/ init_vosk(cfg)
         next == DispatchNext(mode, ready)
     IN /\ stt' = RecognizerAfter(mode, stt, ready)
        /\ IF next = "em"
             THEN EnterModeCall("name_listen", "em")
             ELSE /\ pc' = [pc EXCEPT !["loop"] = next]
                  /\ UNCHANGED <<wdoc, ret>>
  /\ UNCHANGED <<fsVars, mode, last_mode, cfg, timerVars, heard, spoken,
                 envVars, extVars, llmVars>>

\* min_chars as computed at lines 275, 309, 384
MinChars(c) == IF c.test_easy_match THEN c.test_min_chars ELSE 3

\* match_wake_name for each utterance the recognizer can return
WakeOf == [u \in 1..NumUtterances |-> match_wake_name(NormOf[u], callsign)]

\* lines 274-281: the wake decision for utterance u
WakeMatched(c, u) ==
  IF c.test_easy_match /\ c.test_wake_always
    THEN Len(NormOf[u]) >= MinChars(c)
    ELSE WakeOf[u]

\* mutant: every chunk counts as usable speech, a failed one too
SpeechUsableAnyChunk(c, u) == TRUE

\* lines 304-311, 378-386: the chunk was captured and transcribed (u is 0
\* when stt_loop_once returned ok=false) and has at least min_chars
\* characters
SpeechUsable(c, u) == u # 0 /\ Len(NormOf[u]) >= MinChars(c)

\* lines 269-293: name_listen captures a chunk and looks for the wake name
NameListen ==
  /\ pc["loop"] = "nl"
  /\ \E u \in 0..NumUtterances :
       /\ heard' = u
       /\ IF u # 0 /\ WakeMatched(cfg, u)
            THEN EnterModeCall("conversation", "em")
            ELSE /\ pc' = [pc EXCEPT !["loop"] = "load"]
                 /\ UNCHANGED <<wdoc, ret>>
  /\ UNCHANGED <<fsVars, mode, last_mode, cfg, stt, timerVars, spoken,
                 envVars, extVars, llmVars>>

\* _phrase_match (lines 176-187): the test shortcut, else the normalised
\* phrase is a non-empty substring of the utterance
_phrase_match(c, norm_text, phrase) ==
  IF c.test_easy_match /\ c.test_phrase_always
    THEN Len(norm_text) >= MinChars(c)
    ELSE LET p == normalize_text(phrase)
         IN p # <<>> /\ IsSubstring(p, norm_text)

\* lines 313-322: the script the loop walks
WalkedScript(c) ==
  IF c.test_easy_match /\ c.test_phrase_always /\ c.script # <<>>
    THEN <<c.script[1]>>
    ELSE c.script

\* mutant: the length of the utterance is not looked at
IsHitAnyLength(c, norm, item) ==
  /\ Split(item.phrase) # <<>>
  /\ \/ c.test_easy_match /\ c.test_phrase_always
     \/ _phrase_match(c, norm, item.phrase)

\* lines 325-342: a script entry is a hit for the utterance: its stripped
\* phrase is not empty, the utterance is long enough and the phrase matches
IsHit(c, norm, item) ==
  /\ Split(item.phrase) # <<>>
  /\ Len(norm) >= MinChars(c)
  /\ \/ c.test_easy_match /\ c.test_phrase_always
     \/ _phrase_match(c, norm, item.phrase)

\* mutant: the last entry that is a hit wins
LastHit(c, norm) ==
  LET s == WalkedScript(c)
      hits == {i \in 1..Len(s) : IsHit(c, norm, s[i])}
  IN IF hits = {} THEN 0
     ELSE CHOOSE i \in hits : \A j \in hits : i >= j

\* the for loop of lines 324-359 stops at the first hit: its index, 0 when
\* no entry is a hit
FirstHit(c, norm) ==
  LET s == WalkedScript(c)
      hits == {i \in 1..Len(s) : IsHit(c, norm, s[i])}
  IN IF hits = {} THEN 0
     ELSE CHOOSE i \in hits : \A j \in hits : i <= j

\* _run_status_summary: what systemctl reports about the two services
StatusSummaries == {"All systems look normal.", "Agent is inactive. Voice is active."}

\* mutant: the action's speech comes before the reply
HitSpeechActionFirst(item, summary) ==
  (IF item.action = "status.report"
     THEN <<"Let me check the operation condition.", summary>>
     ELSE <<>>)
  \o (IF item.reply # "" THEN <<item.reply>> ELSE <<>>)

\* lines 346-354: what a hit entry makes the loop say
HitSpeech(item, summary) ==
  (IF item.reply # "" THEN <<item.reply>> ELSE <<>>)
  \o (IF item.action = "status.report"
        THEN <<"Let me check the operation condition.", summary>>
        ELSE <<>>)

\* "x or default" for a timeout read from the document
OrDefault(x, d) == IF x = 0 THEN d ELSE x

\* mutant: the conversation timeout fires one second late
ConvTimeoutLate(c, t, last) ==
  t - last > OrDefault(c.conversation_timeout_sec, DEFAULT_CONVERSATION_TIMEOUT_SEC)

\* line 298: the conversation timeout is due
ConvTimeoutDue(c, t, last) ==
  t - last >= OrDefault(c.conversation_timeout_sec, DEFAULT_CONVERSATION_TIMEOUT_SEC)

\* lines 296-301: the conversation timeout check
ConvCheck ==
  /\ pc["loop"] = "conv"
  /\ IF ConvTimeoutDue(cfg, now, conv_last_activity_ts)
       THEN EnterModeCall("name_listen", "em")
       ELSE /\ pc' = [pc EXCEPT !["loop"] = "conv_listen"]
            /\ UNCHANGED <<wdoc, ret>>
  /\ UNCHANGED <<fsVars, mode, last_mode, cfg, stt, timerVars, heard, spoken,
                 envVars, extVars, llmVars>>

\* lines 303-365: conversation captures a chunk; usable speech restarts the
\* timer; the first script entry that is a hit is spoken and acted on
ConvListen ==
  /\ pc["loop"] = "conv_listen"
  /\ \E u \in 0..NumUtterances, summary \in StatusSummaries :
       /\ heard' = u
       /\ conv_last_activity_ts' =
            IF SpeechUsable(cfg, u) THEN now ELSE conv_last_activity_ts
       /\ IF u = 0
            THEN /\ pc' = [pc EXCEPT !["loop"] = "load"]
                 /\ UNCHANGED <<wdoc, ret, spoken>>
            ELSE LET norm == NormOf[u]
                     h == FirstHit(cfg, norm)
                     item == WalkedScript(cfg)[h]
                 IN /\ IF h = 0
                         THEN /\ pc' = [pc EXCEPT !["loop"] = "load"]
                              /\ UNCHANGED <<wdoc, ret, spoken>>
                         ELSE /\ spoken' = HitSpeech(item, summary)
                              /\ IF item.action = "enter.llm"
                                   THEN EnterModeCall("llm_dummy", "em")
                                   ELSE /\ pc' = [pc EXCEPT !["loop"] = "load"]
                                        /\ UNCHANGED <<wdoc, ret>>
  /\ UNCHANGED <<fsVars, mode, last_mode, cfg, stt, mode_enter_ts, last_hb,
                 llm_last_activity_ts, envVars, extVars, llmVars>>

\* mutant: the llm timeout is measured from the time the mode was entered
LlmTimeoutFromEntry(c, t, last) ==
  t - mode_enter_ts >= OrDefault(c.llm_timeout_sec, DEFAULT_LLM_TIMEOUT_SEC)

\* line 372: the llm timeout is due
LlmTimeoutDue(c, t, last) ==
  t - last >= OrDefault(c.llm_timeout_sec, DEFAULT_LLM_TIMEOUT_SEC)

\* mutant: the timeout check never ends the iteration
LlmCheckNextFallThrough(due) == "llm_listen"

\* lines 368-375: the llm_dummy timeout check; when it fires the iteration
\* ends with the transition
LlmCheckNext(due) == IF due THEN "em" ELSE "llm_listen"

LlmCheck ==
  /\ pc["loop"] = "llm"
  /\ LET due == LlmTimeoutDue(cfg, now, llm_last_activity_ts)
     IN IF LlmCheckNext(due) = "em"
          THEN EnterModeCall("name_listen", "em")
          ELSE /\ pc' = [pc EXCEPT !["loop"] = LlmCheckNext(due)]
               /\ UNCHANGED <<wdoc, ret>>
  /\ UNCHANGED <<fsVars, mode, last_mode, cfg, stt, timerVars, heard, spoken,
                 envVars, extVars, llmVars>>

\* lines 377-388: llm_dummy captures a chunk; an utterance of at least
\* min_chars restarts the timer and goes to the LLM
LlmListen ==
  /\ pc["loop"] = "llm_listen"
  /\ \E u \in 0..NumUtterances :
       /\ heard' = u
       /\ IF SpeechUsable(cfg, u)
            THEN /\ llm_last_activity_ts' = now
                 /\ pc' = [pc EXCEPT !["loop"] = "llm_x"]
            ELSE /\ llm_last_activity_ts' = llm_last_activity_ts
                 /\ pc' = [pc EXCEPT !["loop"] = "load"]
  /\ UNCHANGED <<fsVars, wdoc, ret, mode, last_mode, cfg, stt, mode_enter_ts,
                 last_hb, conv_last_activity_ts, spoken, envVars, extVars, llmVars>>

\* the error text of a failed exchange; the loop only logs it
ErrorText == "error"

\* mutant: only llm.model is looked at
LlmConfiguredModelOnly(c) == c.llm_model # ""

\* lines 84-87: llm.model and llm.api_key_file are both there
LlmConfigured(c) == c.llm_model # "" /\ c.llm_api_key_file # ""

\* line 391, llm_exchange lines 68-87: an empty text is answered at once
\* with ok=true and an empty reply; otherwise the exchange loads the
\* configuration document itself (the loop's cfg is not replaced) and gives
\* up when llm.model or llm.api_key_file is missing
LlmExchange ==
  /\ pc["loop"] = "llm_x"
  /\ IF NormOf[heard] = <<>>
       THEN /\ x_ok' = TRUE
            /\ x_reply' = ""
            /\ pc' = [pc EXCEPT !["loop"] = "llm_r"]
            /\ UNCHANGED <<wdoc, ret>>
       ELSE /\ x_ok' = FALSE
            /\ x_reply' = ErrorText
            /\ IF cfgf.kind = "none"
                 THEN /\ pc' = [pc EXCEPT !["loop"] = "exc"]
                      /\ UNCHANGED <<wdoc, ret>>
                 ELSE IF IsDoc(cfgf)
                   THEN /\ pc' = [pc EXCEPT !["loop"] =
                                    IF LlmConfigured(cfgf.doc) THEN "llm_req"
                                    ELSE "llm_r"]
                        /\ UNCHANGED <<wdoc, ret>>
                   ELSE CallSave("loop", DEFAULT_CFG, "llm_r")
  /\ x_reqs' = <<>>
  /\ UNCHANGED <<fsVars, mode, last_mode, cfg, stt, timerVars, heard, spoken,
                 envVars, extVars, llm_state>>

\* mutant: the stored id is used as it is
StoredPrevIdAsStored(st) == st

\* lines 93-101: the stored previous_response_id, dropped when it is not
\* safe
StoredPrevId(st) == IF _id_is_safe(st) THEN st ELSE NoId

\* mutant: every failed request is tried again
RetryDueAnyFailure(resp, prev) == ~resp.ok

\* line 148: the first request was rejected with HTTP 400 and carried an id
RetryDue(resp, prev) ==
  ~resp.ok /\ resp.http_code = 400 /\ prev # NoId

\* line 155: the exchange has no usable answer
ExchangeFailed(resp) == ~resp.ok \/ resp.json = "null"

\* mutant: the stored id is left as it was
NewStateKeep(resp, st) == st

\* lines 158-166: previous_response_id after an answer: the answer's id
\* when that is safe, else what was stored
NewState(resp, st) ==
  IF ~ExchangeFailed(resp) /\ _id_is_safe(resp.id) THEN resp.id ELSE st

\* lines 168-170: the text of an answer, or the stock sentence
ReplyText(resp) ==
  IF resp.text = "" THEN "I do not have an answer yet." ELSE resp.text

\* lines 155-170 as seen by the loop: ok, the text and the persisted id
Finish(resp, st) ==
  /\ x_ok' = ~ExchangeFailed(resp)
  /\ x_reply' = IF ExchangeFailed(resp) THEN ErrorText ELSE ReplyText(resp)
  /\ llm_state' = NewState(resp, st)
  /\ pc' = [pc EXCEPT !["loop"] = "llm_r"]

\* lines 88-152: read the key file, load and sanitise the stored id, make
\* the first request; a rejected id is cleared before the retry
LlmRequest ==
  /\ pc["loop"] = "llm_req"
  /\ IF ~key_present
       THEN /\ x_ok' = FALSE
            /\ x_reply' = ErrorText
            /\ pc' = [pc EXCEPT !["loop"] = "llm_r"]
            /\ UNCHANGED <<llm_state, x_reqs>>
       ELSE LET prev == StoredPrevId(llm_state)
            IN \E resp \in Responses(llm_state) :
                 /\ x_reqs' = <<[stored |-> llm_state, prev |-> prev,
                                 resp |-> resp]>>
                 /\ IF RetryDue(resp, prev)
                      THEN /\ llm_state' = NoId
                           /\ x_ok' = FALSE
                           /\ x_reply' = ErrorText
                           /\ pc' = [pc EXCEPT !["loop"] = "llm_retry"]
                      ELSE Finish(resp, prev)
  /\ UNCHANGED <<fsVars, wdoc, ret, mode, last_mode, cfg, stt, timerVars,
                 heard, spoken, envVars, extVars>>

\* line 153: the one retry, without an id
LlmRetry ==
  /\ pc["loop"] = "llm_retry"
  /\ \E resp \in Responses(x_reqs[1].prev) :
       /\ x_reqs' = Append(x_reqs, [stored |-> llm_state, prev |-> NoId,
                                    resp |-> resp])
       /\ Finish(resp, llm_state)
  /\ UNCHANGED <<fsVars, wdoc, ret, mode, last_mode, cfg, stt, timerVars,
                 heard, spoken, envVars, extVars>>

Apology == "Sorry, I cannot reach the server right now."

\* mutant: a failed exchange is passed over in silence
ReplySpeechSilentOnError(ok2, reply_or_err) ==
  IF ok2 /\ reply_or_err # "" THEN <<reply_or_err>> ELSE <<>>

\* lines 392-400: what the loop says after the exchange
ReplySpeech(ok2, reply_or_err) ==
  IF ok2
    THEN IF reply_or_err # "" THEN <<reply_or_err>> ELSE <<>>
    ELSE <<Apology>>

\* lines 392-400: the reply, or the apology after a failed exchange, is
\* spoken and counts as activity
LlmReply ==
  /\ pc["loop"] = "llm_r"
  /\ LET said == ReplySpeech(x_ok, x_reply)
     IN /\ spoken' = said
        /\ llm_last_activity_ts' =
             IF said # <<>> THEN now ELSE llm_last_activity_ts
  /\ pc' = [pc EXCEPT !["loop"] = "load"]
  /\ UNCHANGED <<fsVars, wdoc, ret, mode, last_mode, cfg, stt, mode_enter_ts,
                 last_hb, conv_last_activity_ts, heard, envVars, extVars,
                 llmVars>>

\* lines 413-417: the handler logs and loads the configuration again
Exc ==
  /\ pc["loop"] = "exc"
  /\ LoopLoad("exc2", "load")
  /\ UNCHANGED <<fsVars, mode, last_mode, stt, timerVars, heard, spoken,
                 envVars, extVars, llmVars>>

\* line 418: the handler's transition to name_listen
Exc2 ==
  /\ pc["loop"] = "exc2"
  /\ EnterModeCall("name_listen", "exc_em")
  /\ UNCHANGED <<fsVars, mode, last_mode, cfg, stt, timerVars, heard, spoken,
                 envVars, extVars, llmVars>>

\* the service process is killed, wherever it is: its descriptor is closed;
\* when it was writing, the inode the descriptor is on holds what was
\* written so far, nothing or a part of the text
Kill ==
  /\ pc["loop"] # "dead"
  /\ pc' = [pc EXCEPT !["loop"] = "dead"]
  /\ fd' = [fd EXCEPT !["loop"] = "closed"]
  /\ \/ /\ fd["loop"] = "tmp"
        /\ tmpf' \in {tmpf, TornFile}
        /\ cfgf' = cfgf
     \/ /\ fd["loop"] = "cfg"
        /\ cfgf' \in {cfgf, TornFile}
        /\ tmpf' = tmpf
     \/ /\ fd["loop"] \in {"closed", "orphan"}
        /\ UNCHANGED <<cfgf, tmpf>>
  /\ UNCHANGED <<wdoc, ret, mode, last_mode, cfg, stt, timerVars, heard,
                 spoken, envVars, extVars, llmVars>>

\* the supervisor (systemd) starts the service again after it died
Restart ==
  /\ pc["loop"] = "dead"
  /\ pc' = [pc EXCEPT !["loop"] = "start"]
  /\ UNCHANGED <<fsVars, wdoc, ret, mode, last_mode, cfg, stt, timerVars,
                 heard, spoken, envVars, extVars, llmVars>>

\* ------------------------------------------------------------------------
\* The external writers (agent.py, voice_agent_api.py, voice_ctl.py)
\* ------------------------------------------------------------------------

\* agent.py exec_voice_mode_set (lines 451-461), which the dispatcher calls
\* for voice.mode.set: deaf, name_listen, conversation and llm are accepted
AgentSetModes == {"deaf", "name_listen", "conversation", "llm"}

ModePatches ==
  {[mode |-> m] : m \in AgentSetModes}

\* voice_ctl.py cmd_mode accepts the four modes of the loop; llm_dummy is
\* the one the agent cannot set
CtlPatches == {[mode |-> "llm_dummy"]}

\* exec_voice_script_set, cmd_script_clear, cmd_script_demo
ScriptPatches == {[script |-> s] : s \in Scripts}

\* agent.py exec_voice_start (lines 408-434), which the dispatcher calls for
\* voice.start: the requested mode, name_listen when none is given, and
\* the timeouts
StartModes == {"name_listen", "conversation"}

StartPatches ==
  {[mode |-> m, conversation_timeout_sec |-> ConvTimeout,
    llm_timeout_sec |-> LlmTimeout] : m \in StartModes}

\* the commands that write the document, each with the patches it can make
Commands ==
  {[cmd |-> "voice.mode.set", patch |-> q] : q \in ModePatches}
  \cup {[cmd |-> "voice_ctl mode", patch |-> q] : q \in CtlPatches}
  \cup {[cmd |-> "voice.script.set", patch |-> q] : q \in ScriptPatches}
  \cup {[cmd |-> "voice.start", patch |-> q] : q \in StartPatches}

\* update_voice_config(patch), lines 117-119 up to the save: load, patch,
\* save; a corrupt document is first replaced by the defaults
ExtLoad ==
  /\ pc["ext"] = "idle"
  /\ ecount < MaxExt
  /\ cfgf.kind # "none"
  /\ \E c \in Commands :
       /\ ecmd' = c.cmd
       /\ epatch' = c.patch
       /\ IF IsDoc(cfgf)
            THEN CallSave("ext", Update(cfgf.doc, c.patch), "idle")
            ELSE CallSave("ext", DEFAULT_CFG, "update")
  /\ ecount' = ecount + 1
  /\ UNCHANGED <<fsVars, mode, last_mode, cfg, stt, timerVars, heard, spoken,
                 envVars, agentVars, llmVars>>

\* update_voice_config after load_voice_config regenerated the defaults
ExtUpdate ==
  /\ pc["ext"] = "update"
  /\ CallSave("ext", Update(DEFAULT_CFG, epatch), "idle")
  /\ UNCHANGED <<fsVars, mode, last_mode, cfg, stt, timerVars, heard, spoken,
                 envVars, extVars, llmVars>>

\* ------------------------------------------------------------------------
\* Environment
\* ------------------------------------------------------------------------

\* a second passes
Tick ==
  /\ now < StartTime + MaxTime
  /\ now' = now + 1
  /\ UNCHANGED <<fsVars, wdoc, pc, ret, mode, last_mode, cfg, stt, timerVars,
                 heard, spoken, model_present, key_present, w_text, w_out,
                 f_target, f_out, extVars, llmVars>>

LoopStep ==
  \/ Start \/ Start2 \/ Start3 \/ Load \/ Check \/ EnterModeDone \/ Log
  \/ Heartbeat \/ Dispatch \/ NameListen \/ ConvCheck \/ ConvListen
  \/ LlmCheck \/ LlmListen \/ LlmExchange \/ LlmReply

\* the service and the external writer, step by step at the granularity of
\* file operations, at one instant; no document has an llm section, so
\* llm_exchange returns before any request
Next ==
  \/ LoopStep
  \/ SaveOpen("loop") \/ SaveWrite("loop") \/ SaveRename("loop")
  \/ LoopSaveFail \/ Exc \/ Exc2 \/ Restart
  \/ ExtLoad \/ ExtUpdate
  \/ SaveOpen("ext") \/ SaveWrite("ext") \/ SaveRename("ext")
  \/ ExtSaveFail

Spec == Init /\ [][Next]_vars

\* the service alone, over time: no external writer, hence no failing save
NextTimed ==
  \/ LoopStep
  \/ SaveOpen("loop") \/ SaveWrite("loop") \/ SaveRename("loop")
  \/ Tick

SpecTimed == InitTimed /\ [][NextTimed]_vars

\* the service alone, over time, with documents that configure the LLM:
\* the exchange gets as far as its HTTP requests
NextLlm ==
  \/ NextTimed
  \/ LlmRequest \/ LlmRetry

SpecLlm == InitLlm /\ [][NextLlm]_vars

\* words a speaker may say to the robot: the prefix words, the callsign,
\* spellings near it and another robot's callsign
WakeWords ==
  { W_twin, W_scout,
    <<"a","l","p","h","a">>, <<"a","l","f","a">>, <<"a","l","p","a">>,
    <<"a","l","b","a">>, <<"b","r","a","v","o">> }

\* one more word is said
WakeSay ==
  /\ Len(w_text) < MaxWords
  /\ \E w \in WakeWords : w_text' = Append(w_text, w)
  /\ w_out' = <<>>
  /\ UNCHANGED <<fsVars, wdoc, pc, ret, mode, last_mode, cfg, stt, timerVars,
                 heard, spoken, now, model_present, key_present, f_target,
                 f_out, extVars, llmVars>>

\* match_wake_name(normalize_text(text), callsign=callsign), as the loop
\* calls it at lines 272-279
WakeCall ==
  /\ w_out = <<>>
  /\ w_out' = <<match_wake_name(normalize_text(Join(w_text)), callsign)>>
  /\ UNCHANGED <<fsVars, wdoc, pc, ret, mode, last_mode, cfg, stt, timerVars,
                 heard, spoken, now, model_present, key_present, w_text,
                 f_target, f_out, extVars, llmVars>>

\* match_wake_name on its own, over the utterances of up to MaxWords words
NextWake == WakeSay \/ WakeCall

\* nothing said yet; the service's own state plays no part
InitWake ==
  /\ cfgf = DocFile(DEFAULT_CFG)
  /\ llm_state = NoId
  /\ key_present = FALSE
  /\ model_present = FALSE
  /\ InitRest

SpecWake == InitWake /\ [][NextWake]_vars

\* words of the demo script's first phrase, and a longer word that holds
\* one of them
PhraseWords == { <<"h","o","w">>, <<"y","o","u">>, <<"y","o","u","r">> }

\* one more word of the target phrase
TargetSay ==
  /\ Len(f_target) < MaxTargetWords
  /\ \E w \in PhraseWords : f_target' = Append(f_target, w)
  /\ f_out' = <<>>
  /\ UNCHANGED <<fsVars, wdoc, pc, ret, mode, last_mode, cfg, stt, timerVars,
                 heard, spoken, now, model_present, key_present, w_text,
                 w_out, extVars, llmVars>>

\* one more word of the utterance
PhraseSay ==
  /\ Len(w_text) < MaxWords
  /\ \E w \in PhraseWords : w_text' = Append(w_text, w)
  /\ f_out' = <<>>
  /\ UNCHANGED <<fsVars, wdoc, pc, ret, mode, last_mode, cfg, stt, timerVars,
                 heard, spoken, now, model_present, key_present, w_out,
                 f_target, extVars, llmVars>>

\* the three matchers called with the normalised utterance and the phrase:
\* _phrase_match as the conversation branch calls it (voice_service.py
\* 339) with a production document, match_phrase as the real-time loop
\* calls it (voice_rt_stt.py 297), and fuzzy_match with its defaults
PhraseCall ==
  /\ f_out = <<>>
  /\ LET norm == normalize_text(Join(w_text))
         phrase == Join(f_target)
     IN f_out' = << [ hit |-> _phrase_match(DEFAULT_CFG, norm, phrase),
                      rt |-> match_phrase(norm, <<phrase>>),
                      fuzzy |-> fuzzy_match(norm, phrase) ] >>
  /\ UNCHANGED <<fsVars, wdoc, pc, ret, mode, last_mode, cfg, stt, timerVars,
                 heard, spoken, now, model_present, key_present, w_text,
                 w_out, f_target, extVars, llmVars>>

\* the phrase matchers on their own, over the phrases of up to
\* MaxTargetWords words and the utterances of up to MaxWords words
NextPhrase == TargetSay \/ PhraseSay \/ PhraseCall

SpecPhrase == InitWake /\ [][NextPhrase]_vars

\* ------------------------------------------------------------------------
\* The agent (agent.py main), as process "ext"
\* ------------------------------------------------------------------------

T_2 == <<"2">>
T_soon == <<"s","o","o","n">>

\* int(text) for a decimal text; int() raises ValueError for any other
RECURSIVE IntOf(_)
IntOf(t) ==
  IF t = <<>> THEN 0
  ELSE 10 * IntOf(SubSeq(t, 1, Len(t) - 1))
       + (CHOOSE d \in 0..9 : ToString(d) = t[Len(t)])
IsIntText(t) == t # <<>> /\ \A i \in 1..Len(t) : t[i] \in Digits

\* the commands the NMS hands out, up to their cmd_id: a mode the agent
\* accepts and one it does not, voice.start with a timeout in seconds, with
\* none and with a word, a scan, and an action the agent does not know
AgentItems ==
  {[action |-> "voice.mode.set", mode |-> m, timeout |-> <<>>] :
     m \in {"deaf", "loud"}}
  \cup {[action |-> "voice.start", mode |-> "", timeout |-> t] :
          t \in {<<>>, T_2, T_soon}}
  \cup {[action |-> a, mode |-> "", timeout |-> <<>>] :
          a \in {"scan.once", "reboot"}}

\* lines 572-583: a poll that returns commands; cmd_id 0 stands for an item
\* that carries none
AgentPoll ==
  /\ pc["ext"] = "idle"
  /\ \E n \in 1..MaxBatch :
       /\ Len(a_cmds) + n <= MaxCmds
       /\ \E items \in [1..n -> AgentItems], ids \in [1..n -> BOOLEAN] :
            a_cmds' = a_cmds \o
              [k \in 1..n |->
                 [cmd_id |-> IF ids[k] THEN Len(a_cmds) + k ELSE 0,
                  item |-> items[k]]]
  /\ pc' = [pc EXCEPT !["ext"] = "item"]
  /\ UNCHANGED <<fsVars, wdoc, ret, mode, last_mode, cfg, stt, timerVars,
                 heard, spoken, envVars, ecmd, epatch, ecount, a_done, a_log,
                 llmVars>>

\* exec_voice_mode_set (lines 451-461) up to its save
ModeSet(item) ==
  IF item.mode \notin AgentSetModes
    THEN /\ pc' = [pc EXCEPT !["ext"] = "ack_error"]
         /\ UNCHANGED <<wdoc, ret>>
    ELSE CallSave("ext", Update(cfgf.doc, [mode |-> item.mode]), "ack_ok")

\* exec_voice_start (lines 408-434) up to its save: int() of the timeout
\* raises ValueError out of dispatch and out of main(), which catches
\* KeyboardInterrupt only (lines 611-615)
VoiceStart(item) ==
  IF item.timeout # <<>> /\ ~IsIntText(item.timeout)
    THEN /\ pc' = [pc EXCEPT !["ext"] = "dead"]
         /\ UNCHANGED <<wdoc, ret>>
    ELSE CallSave("ext",
                  Update(cfgf.doc,
                         [mode |-> "name_listen",
                          conversation_timeout_sec |->
                            IF item.timeout = <<>>
                              THEN DEFAULT_CONVERSATION_TIMEOUT_SEC
                              ELSE IntOf(item.timeout),
                          llm_timeout_sec |-> DEFAULT_LLM_TIMEOUT_SEC,
                          script |-> cfgf.doc.script]),
                  "systemctl")

\* lines 586-605 and dispatch (472-549): the for loop takes the next item,
\* skips it when it has no cmd_id, else logs EXEC and dispatches it
AgentItem ==
  /\ pc["ext"] = "item"
  /\ a_done < Len(a_cmds)
  /\ LET c == a_cmds[a_done + 1]
     IN IF c.cmd_id = 0
          THEN /\ a_done' = a_done + 1
               /\ UNCHANGED <<pc, wdoc, ret, a_log>>
          ELSE /\ a_log' = Append(a_log, [ev |-> "EXEC", cmd_id |-> c.cmd_id,
                                          status |-> ""])
               /\ a_done' = a_done
               /\ IF c.item.action = "voice.mode.set" THEN ModeSet(c.item)
                  ELSE IF c.item.action = "voice.start" THEN VoiceStart(c.item)
                  ELSE IF c.item.action = "scan.once"
                    THEN /\ \E st \in {"ack_ok", "ack_error"} :
                              pc' = [pc EXCEPT !["ext"] = st]
                         /\ UNCHANGED <<wdoc, ret>>
                  ELSE /\ pc' = [pc EXCEPT !["ext"] = "ack_error"]
                       /\ UNCHANGED <<wdoc, ret>>
  /\ UNCHANGED <<fsVars, mode, last_mode, cfg, stt, timerVars, heard, spoken,
                 envVars, ecmd, epatch, ecount, a_cmds, llmVars>>

\* exec_voice_start lines 431-434: systemctl start succeeds or not
AgentSystemctl ==
  /\ pc["ext"] = "systemctl"
  /\ \E st \in {"ack_ok", "ack_error"} : pc' = [pc EXCEPT !["ext"] = st]
  /\ UNCHANGED <<fsVars, wdoc, ret, mode, last_mode, cfg, stt, timerVars,
                 heard, spoken, envVars, extVars, llmVars>>

\* lines 604-607: dispatch returned; ack_command posts the status once and
\* never raises; the for loop goes on
AgentAck ==
  /\ pc["ext"] \in {"ack_ok", "ack_error"}
  /\ a_log' = Append(a_log,
                     [ev |-> "ACK", cmd_id |-> a_cmds[a_done + 1].cmd_id,
                      status |-> IF pc["ext"] = "ack_ok" THEN "ok" ELSE "error"])
  /\ a_done' = a_done + 1
  /\ pc' = [pc EXCEPT !["ext"] = "item"]
  /\ UNCHANGED <<fsVars, wdoc, ret, mode, last_mode, cfg, stt, timerVars,
                 heard, spoken, envVars, ecmd, epatch, ecount, a_cmds, llmVars>>

\* line 609: the batch is done; sleep, then poll again
AgentSleep ==
  /\ pc["ext"] = "item"
  /\ a_done = Len(a_cmds)
  /\ pc' = [pc EXCEPT !["ext"] = "idle"]
  /\ UNCHANGED <<fsVars, wdoc, ret, mode, last_mode, cfg, stt, timerVars,
                 heard, spoken, envVars, extVars, llmVars>>

\* the agent alone, the voice service stopped
NextAgent ==
  \/ AgentPoll \/ AgentItem \/ AgentSystemctl \/ AgentAck \/ AgentSleep
  \/ SaveOpen("ext") \/ SaveWrite("ext") \/ SaveRename("ext")

SpecAgent == InitWake /\ [][NextAgent]_vars

\* the service alone, killed at any point and started again
NextKill ==
  \/ LoopStep
  \/ SaveOpen("loop") \/ SaveWrite("loop") \/ SaveRename("loop")
  \/ Kill \/ Restart

SpecKill == InitTimed /\ [][NextKill]_vars

\* ------------------------------------------------------------------------
\* Properties
\* ------------------------------------------------------------------------

\* the loop process takes a step from position l
LoopAt(l) == pc["loop"] = l /\ pc'["loop"] # l

\* the step is the call of _enter_mode(m) by the loop
CallsEnterMode(m, r) ==
  /\ pc'["loop"] = "save_open"
  /\ ret'["loop"] = r
  /\ wdoc'["loop"].mode = m

InternalModes == {"conversation", "llm_dummy"}

\* C1: at the request check of an iteration, a loaded document whose mode
\* is conversation or llm_dummy and differs from the loop's mode leaves the
\* loop's mode as it is and starts no transition.
C1_RestrictedRequestIgnored ==
  [][ ( /\ LoopAt("check")
        /\ cfg.mode \in InternalModes
        /\ cfg.mode # mode )
      => ( /\ mode' = mode
           /\ pc'["loop"] = "log"
           /\ wdoc' = wdoc /\ cfgf' = cfgf /\ tmpf' = tmpf ) ]_vars

\* C1 witness: the check has passed over a differing conversation or
\* llm_dummy request
C1_Witness ==
  /\ pc["loop"] = "log"
  /\ cfg.mode \in InternalModes
  /\ cfg.mode # mode

\* C2: a step of the running loop that changes the mode to conversation is
\* the transition taken in name_listen for an utterance that matched the
\* wake name, and one that changes it to llm_dummy is the transition taken
\* in conversation for an utterance whose first matching script entry has
\* the action enter.llm.
C2_InternalEntriesOnly ==
  [][ /\ ( /\ pc["loop"] # "start3"
           /\ mode' # mode
           /\ mode' = "conversation" )
         => ( /\ mode = "name_listen"
              /\ pc["loop"] = "em"
              /\ heard # 0
              /\ WakeMatched(cfg, heard) )
      /\ ( /\ pc["loop"] # "start3"
           /\ mode' # mode
           /\ mode' = "llm_dummy" )
         => ( /\ mode = "conversation"
              /\ pc["loop"] = "em"
              /\ heard # 0
              /\ FirstHit(cfg, NormOf[heard]) # 0
              /\ WalkedScript(cfg)[FirstHit(cfg, NormOf[heard])].action = "enter.llm" ) ]_vars

\* C2 witness: the loop is in llm_dummy, entered from conversation
C2_Witness ==
  /\ mode = "llm_dummy"
  /\ last_mode = "conversation"
  /\ heard # 0
  /\ pc["loop"] = "load"

\* a step in which a process reads voice_config.json
ReadsConfig ==
  \/ \E l \in {"start", "load", "exc", "llm_x"} : LoopAt(l)
  \/ pc["ext"] = "idle" /\ pc'["ext"] # "idle"

\* C3: whenever a process reads the configuration document, the file holds
\* a complete document.
C3_NoPartialRead ==
  [][ ReadsConfig => IsDoc(cfgf) ]_vars

\* the rename step of a mode transition's save, moving the document the
\* loop itself wrote over the complete document the external writer saved
\* last, while the external writer is between commands
TransitionReplacesExternal ==
  /\ LoopAt("save_rename")
  /\ ret["loop"] \in {"check_em", "em", "exc_em"}
  /\ tmpf = DocFile(wdoc["loop"])
  /\ cfgf = DocFile(wdoc["ext"])
  /\ pc["ext"] = "idle"
  /\ ecount > 0

\* the document on disk is an external request for deaf or name_listen that
\* the loop did not load at the top of this iteration
UnreadRequest ==
  /\ "mode" \in DOMAIN epatch
  /\ cfgf.doc.mode = epatch.mode
  /\ cfgf.doc.mode \in ExternalModes
  /\ cfgf.doc.mode # cfg.mode
  /\ cfgf.doc.mode # mode

\* C4: an external request for deaf or name_listen that the loop has not yet
\* loaded stays in the document until the loop loads it: the loop's own
\* save never replaces it by another mode.
C4_RequestObserved ==
  [][ (TransitionReplacesExternal /\ UnreadRequest)
      => (IsDoc(cfgf') /\ cfgf'.doc.mode = cfgf.doc.mode) ]_vars

\* a document without its mode
Rest(d) == [d EXCEPT !.mode = ""]

\* C5: the save of a mode transition leaves every field of the document
\* other than mode at the value last written to the document.
C5_TransitionWritesModeOnly ==
  [][ TransitionReplacesExternal
      => (IsDoc(cfgf') /\ Rest(cfgf'.doc) = Rest(cfgf.doc)) ]_vars

\* the configured llm timeout (line 369)
LlmTo == OrDefault(cfg.llm_timeout_sec, DEFAULT_LLM_TIMEOUT_SEC)

\* the configured conversation timeout (line 297)
ConvTo == OrDefault(cfg.conversation_timeout_sec, DEFAULT_CONVERSATION_TIMEOUT_SEC)

\* C6: in llm_dummy with a recognizer and no external writer, the timeout
\* check makes the transition to name_listen exactly when llm_timeout_sec
\* or more has passed since the last activity; an utterance of sufficient
\* length, a spoken reply and a spoken apology each set the time of the
\* last activity to the current time; and the mode leaves llm_dummy for
\* name_listen only through that check.
C6_LlmTimeoutFromLastActivity ==
  [][ /\ LoopAt("llm")
         => ( CallsEnterMode("name_listen", "em")
              <=> now - llm_last_activity_ts >= LlmTo )
      /\ ( LoopAt("llm") /\ now - llm_last_activity_ts < LlmTo )
         => ( pc'["loop"] = "llm_listen" /\ mode' = "llm_dummy" )
      /\ ( /\ LoopAt("llm_listen")
           /\ heard' # 0
           /\ Len(NormOf[heard']) >= MinChars(cfg) )
         => llm_last_activity_ts' = now
      /\ ( LoopAt("llm_r") /\ spoken' # <<>> )
         => llm_last_activity_ts' = now
      /\ ( mode = "llm_dummy" /\ mode' = "name_listen" /\ stt )
         => ( /\ pc["loop"] = "em"
              /\ now - llm_last_activity_ts >= LlmTo ) ]_vars

\* C6 witness: the timeout check has passed although llm_timeout_sec has
\* elapsed since the mode was entered, because there was activity since
C6_Witness ==
  /\ mode = "llm_dummy"
  /\ pc["loop"] = "llm_listen"
  /\ now - mode_enter_ts >= LlmTo
  /\ llm_last_activity_ts > mode_enter_ts

\* C7: in conversation with a recognizer and no external writer, the
\* timeout check makes the transition to name_listen exactly when
\* conversation_timeout_sec or more has passed since the last qualifying
\* speech; an utterance of sufficient length sets that time to the current
\* time; and the mode leaves conversation for name_listen only through that
\* check.
C7_ConversationTimeout ==
  [][ /\ LoopAt("conv")
         => ( CallsEnterMode("name_listen", "em")
              <=> now - conv_last_activity_ts >= ConvTo )
      /\ ( LoopAt("conv") /\ now - conv_last_activity_ts < ConvTo )
         => ( pc'["loop"] = "conv_listen" /\ mode' = "conversation" )
      /\ ( /\ LoopAt("conv_listen")
           /\ heard' # 0
           /\ Len(NormOf[heard']) >= MinChars(cfg) )
         => conv_last_activity_ts' = now
      /\ ( mode = "conversation" /\ mode' = "name_listen" /\ stt )
         => ( /\ pc["loop"] = "em"
              /\ now - conv_last_activity_ts >= ConvTo ) ]_vars

\* C7 witness: the conversation timeout fires, counted from speech heard
\* after the mode was entered
C7_Witness ==
  /\ mode = "conversation"
  /\ pc["loop"] = "save_open"
  /\ ret["loop"] = "em"
  /\ wdoc["loop"].mode = "name_listen"
  /\ stt
  /\ conv_last_activity_ts > mode_enter_ts
  /\ now - conv_last_activity_ts >= ConvTo

\* the loop is inside llm_exchange
InExchange ==
  \/ pc["loop"] \in {"llm_x", "llm_req", "llm_retry", "llm_r"}
  \/ pc["loop"] \in {"save_open", "save_write", "save_rename"} /\ ret["loop"] = "llm_r"

\* C8: the loop is inside an LLM exchange only in llm_dummy, an exchange
\* starts only after a capture in llm_dummy, and a capture in llm_dummy is
\* made only after a timeout check that did not fire; the check that fires
\* starts the transition to name_listen instead.
C8_NoExchangeAfterTimeout ==
  [][ /\ InExchange' => mode' = "llm_dummy"
      /\ ( InExchange' /\ ~InExchange ) => pc["loop"] = "llm_listen"
      /\ ( pc'["loop"] = "llm_listen" /\ pc["loop"] # "llm_listen" )
         => ( /\ pc["loop"] = "llm"
              /\ mode = "llm_dummy"
              /\ now - llm_last_activity_ts < LlmTo )
      /\ ( LoopAt("llm") /\ now - llm_last_activity_ts >= LlmTo )
         => ( CallsEnterMode("name_listen", "em") /\ heard' = heard ) ]_vars

\* C8 witness: the llm timeout has fired in an iteration with a recognizer
C8_Witness ==
  /\ mode = "llm_dummy"
  /\ stt
  /\ pc["loop"] = "save_open"
  /\ ret["loop"] = "em"
  /\ wdoc["loop"].mode = "name_listen"
  /\ heard = 0

\* the loop is inside its exception handler (lines 413-421)
InHandler ==
  \/ pc["loop"] \in {"exc", "exc2", "exc_em"}
  \/ /\ pc["loop"] \in {"save_open", "save_write", "save_rename"}
     /\ ret["loop"] \in {"exc2", "exc_em"}

\* C9: when the exception handler of the loop is done and the next
\* iteration starts, the mode is name_listen.
C9_ExceptionEntersNameListen ==
  [][ (InHandler /\ pc'["loop"] = "load") => mode' = "name_listen" ]_vars

\* no recognizer is cached and none can be created from the loaded document
EngineUnavailable ==
  ~stt /\ (cfg.vosk_model_dir = "" \/ ~model_present)

\* C10 as claimed: an iteration that finds the recognizer unavailable makes
\* the transition to name_listen, whatever the mode, deaf included.
C10_EngineUnavailableAnyMode ==
  [][ (LoopAt("dispatch") /\ EngineUnavailable)
      => CallsEnterMode("name_listen", "em") ]_vars

\* C10 amended: an iteration in name_listen, conversation or llm_dummy that
\* finds the recognizer unavailable makes the transition to name_listen,
\* whose completion sets the mode to name_listen; an iteration in deaf does
\* not look for the recognizer and stays in deaf.
C10_EngineUnavailableNonDeaf ==
  [][ /\ (LoopAt("dispatch") /\ EngineUnavailable)
         => IF mode = "deaf"
              THEN pc'["loop"] = "load" /\ mode' = "deaf" /\ stt' = stt
              ELSE CallsEnterMode("name_listen", "em") /\ mode' = mode
      /\ (LoopAt("em") /\ ~stt) => mode' = "name_listen" ]_vars

\* C10 witness: the fallback transition is completing from conversation or
\* llm_dummy
C10_Witness ==
  /\ pc["loop"] = "em"
  /\ ~stt
  /\ mode \in InternalModes
  /\ wdoc["loop"].mode = "name_listen"

\* the step is the return of _enter_mode to the loop
EnterModeReturns ==
  \E l \in {"check_em", "em", "exc_em"} : LoopAt(l)

\* C11: when a transition returns, the configuration document already
\* holds the new mode, the mode's enter prompt is spoken then (nothing is
\* spoken when the prompt is empty), and with the loop as the only writer
\* the document's mode equals the loop's mode after the transition.
C11_TransitionPersistsThenSpeaks ==
  [][ EnterModeReturns
      => LET prompt == _mode_enter_prompt(cfg, mode')
         IN /\ IsDoc(cfgf) /\ cfgf.doc.mode = mode'
            /\ cfgf' = cfgf
            /\ prompt # "" => spoken' = Append(spoken, prompt)
            /\ cfg.enter_say[mode'] = "" => spoken' = spoken ]_vars

\* C11 witness: a conversation timed out into name_listen, whose prompt is
\* empty: the mode is persisted and nothing was said
C11_Witness ==
  /\ pc["loop"] = "load"
  /\ mode = "name_listen"
  /\ last_mode = "conversation"
  /\ cfg.enter_say["name_listen"] = ""
  /\ spoken = <<>>
  /\ IsDoc(cfgf) /\ cfgf.doc.mode = "name_listen"

\* C12: when the service process has started, its mode is name_listen
\* whatever mode the configuration document held.
C12_RestartResetsToNameListen ==
  [][ LoopAt("start3") => mode' = "name_listen" ]_vars

\* the wake name is matched in the chunk the step captured
WakeEvent ==
  LoopAt("nl") /\ heard' # 0 /\ WakeMatched(cfg, heard')

\* the chunk the step captured hits a script entry whose action is enter.llm
EnterLlmEvent ==
  /\ LoopAt("conv_listen") /\ heard' # 0
  /\ FirstHit(cfg, NormOf[heard']) # 0
  /\ WalkedScript(cfg)[FirstHit(cfg, NormOf[heard'])].action = "enter.llm"

\* C13: the next mode is a function of the current mode and the event: a
\* wake match leads to conversation, an enter.llm match to llm_dummy, the
\* two timeouts and an unavailable recognizer (outside deaf) to
\* name_listen, an accepted external request to the requested mode, each
\* transition ends in the mode it was made for, and an internal error ends
\* in name_listen.
C13_NextModeIsFunction ==
  [][ /\ WakeEvent => CallsEnterMode("conversation", "em")
      /\ EnterLlmEvent => CallsEnterMode("llm_dummy", "em")
      /\ (LoopAt("conv") /\ ConvTimeoutDue(cfg, now, conv_last_activity_ts))
           => CallsEnterMode("name_listen", "em")
      /\ (LoopAt("llm") /\ LlmTimeoutDue(cfg, now, llm_last_activity_ts))
           => CallsEnterMode("name_listen", "em")
      /\ (LoopAt("dispatch") /\ mode # "deaf" /\ ~stt /\ ~init_vosk(cfg))
           => CallsEnterMode("name_listen", "em")
      /\ (LoopAt("check") /\ RequestAccepted(_sanitize_mode(cfg.mode), mode))
           => CallsEnterMode(_sanitize_mode(cfg.mode), "check_em")
      /\ EnterModeReturns => mode' = wdoc["loop"].mode
      /\ (InHandler /\ pc'["loop"] = "load") => mode' = "name_listen" ]_vars

\* C13 witness: an internal error in deaf ended in name_listen
C13_Witness ==
  /\ pc["loop"] = "load"
  /\ mode = "name_listen"
  /\ last_mode = "deaf"

\* the step captures a chunk in name_listen, conversation or llm_dummy
ListenStep ==
  \E l \in {"nl", "conv_listen", "llm_listen"} : LoopAt(l)

\* C14: when the capture or the transcription of a chunk fails, the mode
\* does not change, no activity timer is reset, nothing is written to the
\* configuration document and the loop goes on to its next iteration.
C14_ChunkFailureIsLocal ==
  [][ (ListenStep /\ heard' = 0)
      => /\ mode' = mode
         /\ conv_last_activity_ts' = conv_last_activity_ts
         /\ llm_last_activity_ts' = llm_last_activity_ts
         /\ cfgf' = cfgf /\ tmpf' = tmpf
         /\ pc'["loop"] = "load" ]_vars

\* C14 witness: a chunk failed in conversation some time after the last
\* activity
C14_Witness ==
  /\ pc["loop"] = "load"
  /\ heard = 0
  /\ stt
  /\ mode = "conversation"
  /\ last_mode = "conversation"
  /\ now > conv_last_activity_ts

\* the script entries that are hits for the chunk the step captured
HitsOf(u) ==
  {i \in 1..Len(WalkedScript(cfg)) : IsHit(cfg, NormOf[u], WalkedScript(cfg)[i])}

\* C15: in conversation only the first script entry that matches the
\* utterance is acted on: what is said is that entry's speech, and the
\* transition to llm_dummy is made exactly when that entry's action is
\* enter.llm; with no matching entry nothing is said and no transition made.
C15_FirstMatchOnly ==
  [][ (LoopAt("conv_listen") /\ heard' # 0)
      => IF HitsOf(heard') = {}
           THEN spoken' = spoken /\ pc'["loop"] = "load"
           ELSE \E i \in HitsOf(heard') :
                  /\ \A j \in HitsOf(heard') : i <= j
                  /\ \E summary \in StatusSummaries :
                       spoken' = HitSpeech(WalkedScript(cfg)[i], summary)
                  /\ CallsEnterMode("llm_dummy", "em")
                       <=> WalkedScript(cfg)[i].action = "enter.llm"
                  /\ ~CallsEnterMode("llm_dummy", "em") => pc'["loop"] = "load" ]_vars

\* C15 witness: "let's talk" matches both entries of the script; the first
\* one (no reply, enter.llm) is acted on and the second one's reply is not
\* spoken
C15_Witness ==
  /\ pc["loop"] = "save_open"
  /\ ret["loop"] = "em"
  /\ wdoc["loop"].mode = "llm_dummy"
  /\ cfg.script = TalkScript
  /\ heard # 0
  /\ HitsOf(heard) = {1, 2}
  /\ spoken = <<>>

\* the reply of a script entry, as spoken
ReplyOf(item) == IF item.reply # "" THEN <<item.reply>> ELSE <<>>

\* C16: for a matched script entry the reply, when not empty, is spoken
\* first: for status.report it is followed by the acknowledgment and the
\* status summary and the mode stays conversation; for enter.llm it is
\* spoken before the transition to llm_dummy is made.
C16_ReplyBeforeAction ==
  [][ (LoopAt("conv_listen") /\ heard' # 0 /\ FirstHit(cfg, NormOf[heard']) # 0)
      => LET item == WalkedScript(cfg)[FirstHit(cfg, NormOf[heard'])]
         IN /\ item.action = "status.report"
                 => /\ \E summary \in StatusSummaries :
                         spoken' = ReplyOf(item)
                                   \o <<"Let me check the operation condition.", summary>>
                    /\ mode' = "conversation"
                    /\ pc'["loop"] = "load"
            /\ item.action = "enter.llm"
                 => /\ spoken' = ReplyOf(item)
                    /\ mode' = "conversation"
                    /\ CallsEnterMode("llm_dummy", "em") ]_vars

\* C16 witness: "how are you doing" got the reply, the acknowledgment and
\* the status summary, in conversation
C16_Witness ==
  /\ pc["loop"] = "load"
  /\ mode = "conversation"
  /\ spoken = <<"Let me check.", "Let me check the operation condition.",
                "All systems look normal.">>

\* the last request of the exchange and its response
LastReq(reqs) == reqs[Len(reqs)]

\* the step ends llm_exchange: it returns to the loop
ExchangeReturns ==
  /\ pc["loop"] \in {"llm_x", "llm_req", "llm_retry"}
  /\ pc'["loop"] = "llm_r"

\* C17: in llm_dummy an exchange that fails because llm.model or the key is
\* missing, or because the request could not be sent, returns ok=false;
\* after an exchange that returned ok=false the loop speaks the apology,
\* restarts the activity timer and stays in llm_dummy.
C17_FailedExchangeKeepsSession ==
  [][ /\ ( /\ LoopAt("llm_x") /\ NormOf[heard] # <<>> /\ IsDoc(cfgf)
              /\ (cfgf.doc.llm_model = "" \/ cfgf.doc.llm_api_key_file = "") )
           => (pc'["loop"] = "llm_r" /\ ~x_ok')
      /\ (LoopAt("llm_req") /\ ~key_present)
           => (pc'["loop"] = "llm_r" /\ ~x_ok')
      /\ (ExchangeReturns /\ x_reqs' # <<>> /\ LastReq(x_reqs').resp.http_code = 0)
           => ~x_ok'
      /\ (LoopAt("llm_r") /\ ~x_ok)
           => /\ spoken' = <<Apology>>
              /\ llm_last_activity_ts' = now
              /\ mode = "llm_dummy" /\ mode' = "llm_dummy"
              /\ pc'["loop"] = "load" ]_vars

\* C17 witness: the request could not be sent; the apology was spoken and
\* the timer restarted, later than the mode was entered
C17_Witness ==
  /\ pc["loop"] = "load"
  /\ mode = "llm_dummy"
  /\ x_reqs # <<>>
  /\ LastReq(x_reqs).resp.http_code = 0
  /\ spoken = <<Apology>>
  /\ llm_last_activity_ts = now
  /\ now > mode_enter_ts

\* the step is the first request of an exchange, it carried an id and was
\* rejected with a 4xx status
FirstRequestRejected4xx ==
  /\ LoopAt("llm_req")
  /\ x_reqs' # <<>>
  /\ x_reqs'[1].prev # NoId
  /\ ~x_reqs'[1].resp.ok
  /\ x_reqs'[1].resp.http_code \in 400..499

\* C18: when the request that carried a previous response id is rejected
\* with an HTTP 4xx status, the stored id is cleared and the request is
\* made once more, without the id.
C18_Retry4xx ==
  [][ /\ FirstRequestRejected4xx
           => (llm_state' = NoId /\ pc'["loop"] = "llm_retry")
      /\ LoopAt("llm_retry")
           => (Len(x_reqs') = 2 /\ x_reqs'[2].prev = NoId /\ pc'["loop"] = "llm_r") ]_vars

\* C19 as claimed: after an exchange that returns ok=true the persisted
\* previous_response_id is the id the remote service returned.
C19_PersistedIdIsReturnedId ==
  [][ (ExchangeReturns /\ x_ok' /\ x_reqs' # <<>>)
      => llm_state' = LastReq(x_reqs').resp.id ]_vars

\* C19 amended: after an exchange that returns ok=true and made a request
\* the persisted previous_response_id is the returned id when that id is
\* not empty and has only letters, digits, "_" and "-"; otherwise it is
\* what was stored when the last request was sent: the stored id if safe,
\* nothing after an unsafe stored id or a retry. An exchange that returns
\* ok=true without a request (empty input) leaves the persisted id alone.
C19_PersistedIdIsSafeReturnedId ==
  [][ (ExchangeReturns /\ x_ok')
      => IF x_reqs' = <<>>
           THEN llm_state' = llm_state
           ELSE LET id == LastReq(x_reqs').resp.id
                IN IF _id_is_safe(id)
                     THEN llm_state' = id
                     ELSE llm_state' = IF Len(x_reqs') = 2 THEN NoId
                                       ELSE IF _id_is_safe(llm_state) THEN llm_state
                                       ELSE NoId ]_vars

\* C19 witness: an exchange that carried the stored id returned ok=true and
\* the new id replaced the stored one
C19_Witness ==
  /\ pc["loop"] = "llm_r"
  /\ x_ok
  /\ Len(x_reqs) = 1
  /\ x_reqs[1].prev = Id_1
  /\ x_reqs[1].resp.id = Id_2
  /\ llm_state = Id_2

\* C20: an exchange makes at most two requests; a second one is made only
\* after the first carried an id and was rejected, and it carries no id;
\* when the second fails too the exchange has returned ok=false.
C20_AtMostTwoRequests ==
  /\ Len(x_reqs) <= 2
  /\ Len(x_reqs) = 2
       => /\ x_reqs[1].prev # NoId
          /\ ~x_reqs[1].resp.ok
          /\ x_reqs[1].resp.http_code \in 400..499
          /\ x_reqs[2].prev = NoId
          /\ pc["loop"] \in {"llm_r", "load"}
          /\ ~x_reqs[2].resp.ok => ~x_ok

\* C20 witness: the retry failed as well and the exchange is over
C20_Witness ==
  /\ pc["loop"] = "llm_r"
  /\ Len(x_reqs) = 2
  /\ ~x_reqs[2].resp.ok
  /\ ~x_ok

\* C21: every previous_response_id sent in a request is made of safe
\* characters only; when the stored id is not, the first request carries no
\* id and the stored id is gone after it; and the id stored by a request
\* step is nothing or a safe id the service returned.
C21_OnlySafeIdsSent ==
  [][ /\ \A i \in 1..Len(x_reqs') :
           x_reqs'[i].prev = NoId \/ _id_is_safe(x_reqs'[i].prev)
      /\ ( /\ LoopAt("llm_req")
           /\ x_reqs' # <<>>
           /\ llm_state # NoId
           /\ ~_id_is_safe(llm_state) )
         => ( x_reqs'[1].prev = NoId /\ llm_state' # llm_state )
      /\ ( /\ pc["loop"] \in {"llm_req", "llm_retry"}
           /\ llm_state' # llm_state )
         => \/ llm_state' = NoId
            \/ /\ llm_state' = LastReq(x_reqs').resp.id
               /\ _id_is_safe(llm_state') ]_vars

\* C21 witness: the stored id was "r 0"; the request went out without an
\* id, failed, and the stored id is gone
C21_Witness ==
  /\ pc["loop"] = "llm_r"
  /\ Len(x_reqs) = 1
  /\ x_reqs[1].stored = Id_stale
  /\ x_reqs[1].prev = NoId
  /\ ~x_reqs[1].resp.ok
  /\ llm_state = NoId

\* C22: whenever the exchange returns ok=true, whatever the input text,
\* the reply it returns is not empty.
C22_OkReplyNonEmpty ==
  [][ (ExchangeReturns /\ x_ok') => x_reply' # "" ]_vars

\* C22 witness: the exchange was given the text of a silent chunk and
\* returned ok=true with an empty reply, without a request
C22_Witness ==
  /\ pc["loop"] = "llm_r"
  /\ heard # 0
  /\ NormOf[heard] = <<>>
  /\ x_ok
  /\ x_reply = ""
  /\ x_reqs = <<>>

ListenPositions ==
  {"nl", "conv", "conv_listen", "llm", "llm_listen", "llm_x", "llm_req",
   "llm_retry", "llm_r"}

\* C24: while the mode is deaf the loop is at no position where it listens
\* or talks to the LLM; its step after the heartbeat creates no recognizer,
\* saves nothing and goes straight back to loading the configuration; and
\* no step taken in deaf records an utterance or makes a request.
C24_DeafOnlyReloads ==
  [][ /\ mode = "deaf" => pc["loop"] \notin ListenPositions
      /\ ( mode = "deaf" /\ LoopAt("dispatch") )
         => ( /\ pc'["loop"] = "load"
              /\ stt' = stt
              /\ wdoc' = wdoc )
      /\ ( mode = "deaf" /\ mode' = "deaf" )
         => ( /\ heard' \in {heard, 0}
              /\ x_reqs' \in {x_reqs, <<>>} ) ]_vars

\* C24 witness: the loop, deaf at an external request with a recognizer
\* still cached from the time it listened, has finished an iteration in deaf
C24_Witness ==
  /\ mode = "deaf"
  /\ last_mode = "deaf"
  /\ pc["loop"] = "load"
  /\ stt
  /\ ecount > 0

\* the step is the external writer's update_voice_config(epatch') reading a
\* complete document and going on to save the patched one
UpdateCalled ==
  /\ pc["ext"] = "idle"
  /\ pc'["ext"] = "save_open"
  /\ IsDoc(cfgf)

LoopLoads == LoopAt("start") \/ LoopAt("load") \/ LoopAt("exc")

\* C26: when voice_config.json is missing or does not hold a complete
\* document, load_voice_config returns the defaults and goes on to save
\* them.
C26_LoadRegeneratesDefaults ==
  [][ ( LoopLoads /\ ~IsDoc(cfgf) )
      => ( /\ cfg' = DEFAULT_CFG
           /\ wdoc'["loop"] = DEFAULT_CFG
           /\ pc'["loop"] = "save_open" ) ]_vars

\* C26 witness: the service died at its first load_voice_config because
\* voice_config.json is missing, and the file is still missing
C26_Witness ==
  /\ pc["loop"] = "dead"
  /\ cfgf = NoFile
  /\ tmpf = NoFile

\* C27: the loop's mode is always one of the four; every document the loop
\* goes on to save has one of the four as its mode; a loaded mode that is
\* none of the four counts as a request for deaf at the request check; and
\* the loop never gets to its unknown-mode branch.
C27_ModeAlwaysKnown ==
  [][ /\ mode \in Modes /\ mode' \in Modes
      /\ ( pc["loop"] # "save_open" /\ pc'["loop"] = "save_open" )
         => wdoc'["loop"].mode \in Modes
      /\ ( LoopAt("check") /\ cfg.mode \notin Modes )
         => IF mode = "deaf"
              THEN pc'["loop"] = "log" /\ wdoc' = wdoc
              ELSE CallsEnterMode("deaf", "check_em")
      /\ pc["loop"] # "unknown" /\ pc'["loop"] # "unknown" ]_vars

\* C27 witness: the document asked for the mode "llm"; the loop, in
\* name_listen before, has entered deaf
C27_Witness ==
  /\ pc["loop"] = "log"
  /\ cfg.mode = "llm"
  /\ mode = "deaf"
  /\ last_mode = "name_listen"

\* C28: with the service as the only writer, killed at any point, every
\* step leaves voice_config.json a complete document: the one it held
\* before the step or the one the service is saving.
C28_KillLeavesWholeDocument ==
  [][ IsDoc(cfgf)
      => ( /\ IsDoc(cfgf')
           /\ cfgf' = cfgf \/ cfgf' = DocFile(wdoc["loop"]) ) ]_vars

\* C28 witness: the service was killed while it wrote the temporary file,
\* which holds a part of the new document; voice_config.json still holds
\* the old one
C28_Witness ==
  /\ pc["loop"] = "dead"
  /\ tmpf = TornFile
  /\ IsDoc(cfgf)
  /\ cfgf.doc # wdoc["loop"]

\* the step starts the external command c
CommandStarts(c) == pc["ext"] = "idle" /\ pc'["ext"] # "idle" /\ ecmd' = c

\* C29: a voice.mode.set command that writes the document writes deaf or
\* name_listen as the mode, and so does a voice.start command.
C29_AgentModesRestricted ==
  [][ ( CommandStarts("voice.mode.set") \/ CommandStarts("voice.start") )
      => epatch'.mode \in {"deaf", "name_listen"} ]_vars

\* C29 witness: voice.mode.set with mode conversation was accepted and the
\* document now asks for conversation
C29_Witness ==
  /\ pc["ext"] = "idle"
  /\ ecmd = "voice.mode.set"
  /\ epatch = [mode |-> "conversation"]
  /\ IsDoc(cfgf)
  /\ cfgf.doc.mode = "conversation"
  /\ cfgf = DocFile(wdoc["ext"])

\* the tokens match_wake_name sees for the words in w_text
WakeTokens == Split(normalize_text(Join(w_text)))

\* no token is as similar to the callsign as the strict cutoff asks
CallsignBelowCutoff ==
  \A i \in 1..Len(WakeTokens) :
    ~RatioAtLeast(_ratio(WakeTokens[i], callsign), CALLSIGN_MIN_RATIO)

\* C30: for an utterance none of whose tokens reaches the strict cutoff in
\* similarity to the callsign, match_wake_name has returned false, prefix
\* words or not.
C30_WeakCallsignNeverWakes ==
  ( w_out # <<>> /\ CallsignBelowCutoff ) => w_out = <<FALSE>>

\* C30 witness: "twin scout bravo" has both prefix words and the callsign
\* of another robot; match_wake_name returned false
C30_Witness ==
  /\ w_text = <<W_twin, W_scout, <<"b","r","a","v","o">> >>
  /\ CallsignBelowCutoff
  /\ w_out = <<FALSE>>

\* C32: the heartbeat step of an iteration, whether the line is due or
\* not, leaves the mode, the mode-entry and activity timestamps, the cached
\* recognizer, the loaded document and both files as they were; the line is
\* logged, and the time of the last heartbeat set, exactly when
\* HEARTBEAT_SEC have passed since the last one.
C32_HeartbeatChangesNothingElse ==
  [][ LoopAt("hb")
      => ( /\ mode' = mode /\ last_mode' = last_mode
           /\ mode_enter_ts' = mode_enter_ts
           /\ conv_last_activity_ts' = conv_last_activity_ts
           /\ llm_last_activity_ts' = llm_last_activity_ts
           /\ stt' = stt
           /\ cfg' = cfg /\ wdoc' = wdoc
           /\ cfgf' = cfgf /\ tmpf' = tmpf
           /\ spoken' = spoken /\ heard' = heard
           /\ last_hb' = IF now - last_hb >= HEARTBEAT_SEC THEN now ELSE last_hb
           /\ pc'["loop"] = "dispatch" ) ]_vars

\* C32 witness: the heartbeat line has just been logged in a listening mode
\* with the document loaded
C32_Witness ==
  /\ pc["loop"] = "dispatch"
  /\ mode # "deaf"
  /\ last_hb = now
  /\ mode_enter_ts = StartTime

\* the loop is inside the _enter_mode call of the external request check
InRequestTransition ==
  /\ ret["loop"] = "check_em"
  /\ pc["loop"] \in {"save_open", "save_write", "save_rename", "check_em"}

\* C34: in conversation or llm_dummy, when the document loaded at the top
\* of the iteration asks for deaf or name_listen, the request check calls
\* _enter_mode for that mode, and the call completes: the loop reaches the
\* mode-change log in the requested mode without having left the transition
\* for any other position.
C34_ExternalRequestTakesEffect ==
  [][ /\ ( /\ LoopAt("check")
           /\ mode \in InternalModes
           /\ _sanitize_mode(cfg.mode) \in {"deaf", "name_listen"} )
         => CallsEnterMode(_sanitize_mode(cfg.mode), "check_em")
      /\ ( InRequestTransition /\ mode \in InternalModes )
         => ( /\ pc'["loop"] \in {"save_open", "save_write", "save_rename",
                                  "check_em", "log"}
              /\ pc'["loop"] = "log" => mode' = wdoc["loop"].mode ) ]_vars

\* C34 witness: an external request has taken the loop from conversation or
\* llm_dummy to deaf at the top of an iteration
C34_Witness ==
  /\ pc["loop"] = "log"
  /\ mode = "deaf"
  /\ last_mode \in InternalModes
  /\ IsDoc(cfgf) /\ cfgf.doc.mode = "deaf"

\* C35: when the loop is not in deaf and the document loaded at the top of
\* the iteration has a mode outside the four values, or was unreadable and
\* has been replaced by the defaults, the request check calls _enter_mode
\* for deaf, and the call completes: the file is renamed with mode deaf and
\* the loop reaches the mode-change log in deaf.
C35_UnknownModeEntersDeaf ==
  [][ /\ ( LoopAt("load") /\ cfgf.kind \notin {"none", "doc"} )
         => ( cfg' = DEFAULT_CFG /\ cfg'.mode = "deaf" )
      /\ ( /\ LoopAt("check")
           /\ mode # "deaf"
           /\ (cfg.mode \notin Modes \/ cfg = DEFAULT_CFG) )
         => CallsEnterMode("deaf", "check_em")
      /\ ( InRequestTransition /\ mode # "deaf" /\ wdoc["loop"].mode = "deaf" )
         => ( /\ pc'["loop"] \in {"save_open", "save_write", "save_rename",
                                  "check_em", "log"}
              /\ LoopAt("save_rename")
                 => (IsDoc(cfgf') /\ cfgf'.doc.mode = "deaf")
              /\ pc'["loop"] = "log" => mode' = "deaf" ) ]_vars

\* C35 witness: the loop, listening for its name, has loaded a document
\* whose mode is not one of the four and has entered deaf
C35_Witness ==
  /\ pc["loop"] = "log"
  /\ mode = "deaf"
  /\ last_mode = "name_listen"
  /\ cfg.mode \notin Modes
  /\ IsDoc(cfgf) /\ cfgf.doc.mode = "deaf"

\* C36: the mode-change log of the first iteration in conversation
\* (llm_dummy) sets the conversation (llm) activity timestamp to the current
\* time; every timeout check of a mode runs after that log, with a timestamp
\* no older than the entry into the mode; so a timeout that fires has waited
\* the whole timeout since the entry.
C36_EntryRestartsTimer ==
  [][ /\ ( LoopAt("log") /\ mode # last_mode /\ mode = "conversation" )
         => conv_last_activity_ts' = now
      /\ ( LoopAt("log") /\ mode # last_mode /\ mode = "llm_dummy" )
         => llm_last_activity_ts' = now
      /\ LoopAt("conv")
         => ( /\ mode = "conversation" /\ last_mode = "conversation"
              /\ conv_last_activity_ts >= mode_enter_ts
              /\ CallsEnterMode("name_listen", "em")
                 => now - mode_enter_ts >=
                      OrDefault(cfg.conversation_timeout_sec,
                                DEFAULT_CONVERSATION_TIMEOUT_SEC) )
      /\ LoopAt("llm")
         => ( /\ mode = "llm_dummy" /\ last_mode = "llm_dummy"
              /\ llm_last_activity_ts >= mode_enter_ts
              /\ CallsEnterMode("name_listen", "em")
                 => now - mode_enter_ts >=
                      OrDefault(cfg.llm_timeout_sec, DEFAULT_LLM_TIMEOUT_SEC) )
    ]_vars

\* C36 witness: conversation was entered when the timestamp left from the
\* start was already a whole timeout old, and its timeout check has passed
C36_Witness ==
  /\ pc["loop"] = "conv_listen"
  /\ mode = "conversation"
  /\ mode_enter_ts - StartTime >=
       OrDefault(cfg.conversation_timeout_sec, DEFAULT_CONVERSATION_TIMEOUT_SEC)
  /\ conv_last_activity_ts >= mode_enter_ts

\* C37: the cached recognizer changes only at the dispatch step of a
\* non-deaf iteration that has none, and becomes what init_vosk returns; an
\* iteration that has a recognizer keeps it and runs its mode's branch; an
\* iteration whose init_vosk fails calls _enter_mode for name_listen, in
\* name_listen too, and when that returns name_listen is persisted, its
\* enter prompt has been spoken, the iteration is over and there is still
\* no recognizer, so the next non-deaf iteration calls init_vosk again.
C37_RecognizerInitialisedLazily ==
  [][ /\ stt' # stt
         => (LoopAt("dispatch") /\ mode # "deaf" /\ ~stt /\ init_vosk(cfg))
      /\ (LoopAt("dispatch") /\ stt)
         => ( /\ stt'
              /\ pc'["loop"] = IF mode = "deaf" THEN "load" ELSE Branch(mode) )
      /\ (LoopAt("dispatch") /\ ~stt /\ mode # "deaf")
         => ( /\ stt' = init_vosk(cfg)
              /\ IF init_vosk(cfg)
                   THEN pc'["loop"] = Branch(mode)
                   ELSE CallsEnterMode("name_listen", "em") )
      /\ (LoopAt("em") /\ ~stt)
         => ( /\ mode' = "name_listen"
              /\ IsDoc(cfgf) /\ cfgf.doc.mode = "name_listen"
              /\ LET prompt == _mode_enter_prompt(cfg, "name_listen")
                 IN spoken' = IF prompt # "" THEN Append(spoken, prompt)
                                             ELSE spoken
              /\ ~stt'
              /\ pc'["loop"] = "load" ) ]_vars

\* C37 witness: an iteration that was already in name_listen could not
\* create the recognizer and has made the name_listen transition, speaking
\* its enter prompt
C37_Witness ==
  /\ pc["loop"] = "load"
  /\ mode = "name_listen"
  /\ last_mode = "name_listen"
  /\ ~stt
  /\ Len(spoken) = 1
  /\ spoken[1] = _mode_enter_prompt(cfg, "name_listen")

\* the utterance just transcribed is shorter than min_chars
ShortUtterance(c, u) == u # 0 /\ Len(NormOf[u]) < MinChars(c)

\* C38: min_chars is 3 unless test_easy_match is set; a transcribed
\* utterance shorter than min_chars leaves both activity timestamps as they
\* were, is answered by no script entry and starts no transition in
\* conversation, and ends the iteration without an LLM exchange in
\* llm_dummy; in conversation a transcribed utterance of at least min_chars
\* sets the conversation timestamp to the current time, hit or no hit, and
\* in llm_dummy it sets the llm timestamp and goes to the exchange.
C38_ShortUtteranceIgnored ==
  [][ /\ ~cfg.test_easy_match => MinChars(cfg) = 3
      /\ (LoopAt("conv_listen") /\ heard' # 0)
         => IF ShortUtterance(cfg, heard')
              THEN /\ conv_last_activity_ts' = conv_last_activity_ts
                   /\ llm_last_activity_ts' = llm_last_activity_ts
                   /\ spoken' = spoken
                   /\ pc'["loop"] = "load"
              ELSE conv_last_activity_ts' = now
      /\ (LoopAt("llm_listen") /\ heard' # 0)
         => IF ShortUtterance(cfg, heard')
              THEN /\ conv_last_activity_ts' = conv_last_activity_ts
                   /\ llm_last_activity_ts' = llm_last_activity_ts
                   /\ x_reqs' = x_reqs
                   /\ pc'["loop"] = "load"
              ELSE /\ llm_last_activity_ts' = now
                   /\ pc'["loop"] = "llm_x" ]_vars

\* C38 witness: a conversation whose timer has been running for a while
\* heard "hi", two characters against a minimum of three, and went on with
\* its timer as it was
C38_Witness ==
  /\ pc["loop"] = "load"
  /\ mode = "conversation"
  /\ heard = 1
  /\ MinChars(cfg) = 3
  /\ conv_last_activity_ts < now
  /\ spoken = <<>>

\* some token is like "twin" or "scout"
PrefixPresent ==
  \E i \in 1..Len(WakeTokens) :
    \/ RatioAtLeast(_ratio(WakeTokens[i], W_twin), PREFIX_MIN_RATIO)
    \/ RatioAtLeast(_ratio(WakeTokens[i], W_scout), PREFIX_MIN_RATIO)

TextTokens == Split(normalize_text(Join(w_text)))
TargetTokens == Split(Join(f_target))

\* the similarity of target token i to the utterance token most like it
BestOf(i) ==
  LET rs == {_ratio(TargetTokens[i], TextTokens[k]) : k \in 1..Len(TextTokens)}
  IN CHOOSE r \in rs : \A q \in rs : ~RatioGreater(q, r)

\* the target tokens that qualify: first token 0.85, last 0.90, others 0.80
Qualifying ==
  {i \in 1..Len(TargetTokens) :
     RatioAtLeast(BestOf(i), IF i = 1 THEN 85
                             ELSE IF i = Len(TargetTokens) THEN 90 ELSE 80)}

\* the sum of the similarities of the target tokens in S
RECURSIVE SumOf(_)
SumOf(S) ==
  IF S = {} THEN <<0, 1>>
  ELSE LET i == CHOOSE j \in S : TRUE
       IN FracAdd(BestOf(i), SumOf(S \ {i}))

\* C40: fuzzy_match with its defaults has returned no match, with score
\* 0.0, for every target of fewer than three tokens; when it has returned a
\* match, at least three target tokens qualify and the score is the sum of
\* the qualifying tokens' similarities divided by their number.
C40_FuzzyNeedsThreeHits ==
  f_out # <<>>
  => LET r == f_out[1].fuzzy
         q == Qualifying
         sum == SumOf(q)
     IN /\ Len(TargetTokens) < 3 => (~r.ok /\ FracEq(r.score, <<0, 1>>))
        /\ r.ok => ( /\ Cardinality(q) >= 3
                     /\ FracEq(r.score, <<sum[1], sum[2] * Cardinality(q)>>) )

\* C40 witness: a target of four tokens matched with three qualifying
\* tokens, one of them short of a perfect match
C40_Witness ==
  /\ f_out # <<>>
  /\ f_out[1].fuzzy.ok
  /\ Len(f_target) = 4
  /\ Cardinality(Qualifying) = 3
  /\ ~FracEq(f_out[1].fuzzy.score, <<1, 1>>)

\* some utterance is there, and the best similarity of the phrase's last
\* token to an utterance token is below the last-token cutoff
LastTokenBelowCutoff ==
  /\ TextTokens # <<>>
  /\ TargetTokens # <<>>
  /\ ~RatioAtLeast(BestOf(Len(TargetTokens)), 90)

\* C31: when the phrase's last token is less than 0.90 similar to every
\* token of the utterance, no phrase matcher has reported a match: the
\* script-hit test _phrase_match returned false, match_phrase returned no
\* phrase and fuzzy_match returned no match.
C31_LastTokenMandatory ==
  ( f_out # <<>> /\ LastTokenBelowCutoff )
  => ( /\ ~f_out[1].hit
       /\ f_out[1].rt.kind # "phrase"
       /\ ~f_out[1].fuzzy.ok )

\* C31 witness: a phrase of three tokens whose first two are in the
\* utterance word for word and whose last is not; fuzzy_match returned no
\* match
C31_Witness ==
  /\ f_out # <<>>
  /\ Len(f_target) = 3
  /\ LastTokenBelowCutoff
  /\ \A i \in 1..2 : FracEq(BestOf(i), <<1, 1>>)
  /\ ~f_out[1].fuzzy.ok

\* the commands with a cmd_id among the first n polled
RECURSIVE WithId(_, _)
WithId(cmds, n) ==
  IF n = 0 THEN <<>>
  ELSE IF cmds[n].cmd_id = 0 THEN WithId(cmds, n - 1)
  ELSE Append(WithId(cmds, n - 1), cmds[n].cmd_id)

\* C33: the agent process never ends; the commands it is through with,
\* those without a cmd_id left out, have each one EXEC line followed by one
\* acknowledgement with status ok or error, in the order polled; at most
\* the command in hand has been dispatched and not yet acknowledged; and
\* when the agent is back at its poll every polled command is done.
C33_EveryCommandAcked ==
  LET done == WithId(a_cmds, a_done)
  IN /\ pc["ext"] # "dead"
     /\ Len(a_log) \in {2 * Len(done), 2 * Len(done) + 1}
     /\ \A k \in 1..Len(done) :
          /\ a_log[2 * k - 1] = [ev |-> "EXEC", cmd_id |-> done[k], status |-> ""]
          /\ a_log[2 * k].ev = "ACK"
          /\ a_log[2 * k].cmd_id = done[k]
          /\ a_log[2 * k].status \in {"ok", "error"}
     /\ pc["ext"] = "idle"
        => (a_done = Len(a_cmds) /\ Len(a_log) = 2 * Len(done))

\* C33 witness: two polls are done, one command had no cmd_id, one was
\* acknowledged with error and one with ok
C33_Witness ==
  /\ pc["ext"] = "idle"
  /\ Len(a_cmds) = 3
  /\ Len(a_log) = 4
  /\ a_log[2].status = "error"
  /\ a_log[4].status = "ok"
  /\ IsDoc(cfgf) /\ cfgf.doc.conversation_timeout_sec = 2
====
